---- MODULE Spec2Model ----
(***************************************************************************)
(* Insights analytics of the weight tracker (frontend/src/pages/           *)
(* Insights.jsx and the API client): the series and delta builder, the     *)
(* weekday / month accumulators, the training-window overlay, the          *)
(* histogram and outlier helpers, the regression helpers and the goal      *)
(* pace computations.                                                      *)
(*                                                                         *)
(* Conventions of the model.                                               *)
(*  - A calendar date is a day number: day 0 is 2025-01-01 (a Wednesday).  *)
(*    A JavaScript Date instant is counted in half days, so that "now"     *)
(*    can fall at midnight or later in the day: the instant of a sample    *)
(*    dated d is 2*d.                                                      *)
(*  - A weight is an integer number of kilograms.                          *)
(*  - A real number the code computes by division is kept exact, as a      *)
(*    fraction [n |-> numerator, d |-> denominator] with d > 0; the        *)
(*    code's IEEE doubles round these values.                              *)
(***************************************************************************)
EXTENDS Integers, Sequences, FiniteSets, TLC

\* ------------------------------------------------------------------ bounds

\* Longest weight history (dashboard.weight_trend) explored.
MaxSamples == 3

\* Dates of the samples: they straddle the edges of the 14, 30 and 60 day
\* windows anchored on day 60 and on day 47, and fall in three months.
Dates == {0, 30, 31, 47, 60}

Weights == {78, 80}

\* "now" instants (half days): midnight of day 60 and noon of day 75.
Nows == {120, 151}

\* ---------------------------------------------------------------- fractions

Frac(a, b) == [n |-> a, d |-> b]

FracEq(p, q) == p.n * q.d = q.n * p.d

FracLt(p, q) == p.n * q.d < q.n * p.d

FracAdd(p, q) == [n |-> p.n * q.d + q.n * p.d, d |-> p.d * q.d]

Abs(x) == IF x < 0 THEN -x ELSE x

RECURSIVE GCD(_, _)
GCD(a, b) == IF b = 0 THEN a ELSE GCD(b, a % b)

\* A fraction in lowest terms (denominators are positive).
Reduce(x) ==
    LET g == GCD(Abs(x.n), x.d)
    IN  Frac(x.n \div g, x.d \div g)

FracAbs(x) == Frac(Abs(x.n), x.d)

\* The sum and the product of two fractions, in lowest terms.
FracSum(p, q) ==
    LET g == GCD(p.d, q.d)
    IN  Reduce(Frac(p.n * (q.d \div g) + q.n * (p.d \div g), (p.d \div g) * q.d))

FracMul(p, q) ==
    LET r == Reduce(p)
        t == Reduce(q)
        a == Reduce(Frac(r.n, t.d))
        b == Reduce(Frac(t.n, r.d))
    IN  Frac(a.n * b.n, a.d * b.d)

FracNeg(p) == Frac(-p.n, p.d)

\* p / q for q > 0.
FracDiv(p, q) == Reduce(Frac(p.n * q.d, p.d * q.n))

RECURSIVE MulMod(_, _, _)
\* [q, r] with k * b = q * d + r and 0 <= r < d, for 0 <= b < d.
MulMod(k, b, d) ==
    IF k = 0 THEN [q |-> 0, r |-> 0]
    ELSE LET h  == MulMod(k \div 2, b, d)
             \* twice the half, then b once more when k is odd
             t  == IF h.r >= d - h.r THEN [q |-> 2 * h.q + 1, r |-> h.r - (d - h.r)]
                   ELSE [q |-> 2 * h.q, r |-> 2 * h.r]
         IN  IF k % 2 = 0 THEN t
             ELSE IF t.r >= d - b THEN [q |-> t.q + 1, r |-> t.r - (d - b)]
             ELSE [q |-> t.q, r |-> t.r + b]

\* The 1e-6 added to |req| in the ratios.
Epsilon == Frac(1, 1000000)

\* floor(k * x) for an integer k >= 0 and a fraction x >= 0.
MulFloor(k, x) == k * (x.n \div x.d) + MulMod(k, x.n % x.d, x.d).q

\* Math.round(k * x) for an integer k >= 0 and a fraction x >= 0.
MulRound(k, x) == (MulFloor(2 * k, x) + 1) \div 2

Max(a, b) == IF a >= b THEN a ELSE b

\* ------------------------------------------------------------------ calendar

\* Date.prototype.getDay(): 0 = Sunday. Day 0 (2025-01-01) is a Wednesday.
getDay(d) == (d + 3) % 7

\* Date.prototype.getMonth(): 0 = January; 2025 and 2026 are not leap years.
getMonth(d) ==
    LET doy == d % 365
        starts == <<0, 31, 59, 90, 120, 151, 181, 212, 243, 273, 304, 334, 365>>
    IN  CHOOSE m \in 0..11 : starts[m + 1] <= doy /\ doy < starts[m + 2]

\* date-fns differenceInCalendarDays(a, b).
differenceInCalendarDays(a, b) == a - b

\* The instant (half days) of a date parsed from the API, new Date(p.date).
Instant(d) == 2 * d

\* ------------------------------------------------------------ series builder

Sample(d, w) == [date |-> d, weight |-> w]

Samples == {Sample(d, w) : d \in Dates, w \in Weights}

\* Array.prototype.sort((a, b) => a.d - b.d) is stable: a point goes after
\* every point whose date is not later than its own.
RECURSIVE InsertByDate(_, _)
InsertByDate(s, p) ==
    IF s = <<>> THEN <<p>>
    ELSE IF Head(s).d > p.d THEN <<p>> \o s
    ELSE <<Head(s)>> \o InsertByDate(Tail(s), p)

RECURSIVE SortByDate(_)
SortByDate(s) ==
    IF s = <<>> THEN <<>>
    ELSE InsertByDate(SortByDate(SubSeq(s, 1, Len(s) - 1)), s[Len(s)])

\* points = history.map(p => ({d: new Date(p.date), w: parseFloat(p.weight)}))
\*                 .sort((a, b) => a.d - b.d)
Points(h) ==
    SortByDate([i \in 1..Len(h) |-> [d |-> h[i].date, w |-> h[i].weight]])

\* The delta loop, from index i (1-based) on: a pair is pushed only when the
\* two dates differ.
RECURSIVE DeltasFrom(_, _)
DeltasFrom(pts, i) ==
    IF i > Len(pts) THEN <<>>
    ELSE LET days == differenceInCalendarDays(pts[i].d, pts[i - 1].d)
             dw   == Frac(pts[i].w - pts[i - 1].w, days)
         IN  (IF days > 0 THEN <<[date |-> pts[i].d, change |-> dw]>> ELSE <<>>)
                \o DeltasFrom(pts, i + 1)

Deltas(pts) == DeltasFrom(pts, 2)

\* accW: per weekday, the sum and the number of the daily changes.
RECURSIVE AccWFrom(_, _, _)
AccWFrom(ds, i, acc) ==
    IF i > Len(ds) THEN acc
    ELSE LET wd == getDay(ds[i].date)
         IN  AccWFrom(ds, i + 1,
                 [acc EXCEPT ![wd] = [sum |-> FracAdd(@.sum, ds[i].change),
                                      n   |-> @.n + 1]])

\* Faulty variant of AccW: the accumulation misses the first delta.
AccWOffByOne(ds) ==
    AccWFrom(ds, 2, [wd \in 0..6 |-> [sum |-> Frac(0, 1), n |-> 0]])

AccW(ds) == AccWFrom(ds, 1, [wd \in 0..6 |-> [sum |-> Frac(0, 1), n |-> 0]])

\* accM: per month, the sum and the number of the daily changes.
RECURSIVE AccMFrom(_, _, _)
AccMFrom(ds, i, acc) ==
    IF i > Len(ds) THEN acc
    ELSE LET m == getMonth(ds[i].date)
         IN  AccMFrom(ds, i + 1,
                 [acc EXCEPT ![m] = [sum |-> FracAdd(@.sum, ds[i].change),
                                     n   |-> @.n + 1]])

AccM(ds) == AccMFrom(ds, 1, [m \in 0..11 |-> [sum |-> Frac(0, 1), n |-> 0]])

\* changes30d: the changes of the deltas dated on or after now - 30 days.
Changes30d(ds, t) ==
    LET recentCut == t - 2 * 30
        keep(x) == Instant(x.date) >= recentCut
        kept == SelectSeq(ds, keep)
    IN  [i \in 1..Len(kept) |-> kept[i].change]

\* ------------------------------------------------------------------ windows

Null == [kind |-> "null"]

Undefined == [kind |-> "undefined"]

\* The options of the "Train" select.
TrainWindowOptions == {14, 30, 60, 90, 180, 0}

\* Faulty variant of TrainOverlay: the window reaches back one day too far.
TrainOverlayOffByOne(h, w) ==
    IF Len(h) = 0 \/ w <= 0 THEN Null
    ELSE LET last   == h[Len(h)].date
             cutoff == last - w
         IN  [kind |-> "area", x1 |-> cutoff, x2 |-> last]

\* trainOverlay: the shaded training window, anchored on the last element of
\* the history.
TrainOverlay(h, w) ==
    IF Len(h) = 0 \/ w <= 0 THEN Null
    ELSE LET last   == h[Len(h)].date
             cutoff == last - (w - 1)
         IN  [kind |-> "area", x1 |-> cutoff, x2 |-> last]

\* window_days: (trainWindow > 0 ? trainWindow : undefined)
WindowDaysParam(w) == IF w > 0 THEN [kind |-> "days", v |-> w] ELSE Undefined

\* The service's trailing window over a series (spec 4.1): everything when
\* window_days is 0 or omitted, else the samples from the last sample's date
\* minus (window_days - 1) to the last sample's date.
WindowedSeries(series, param) ==
    IF param = Undefined \/ Len(series) = 0 THEN series
    ELSE IF param.v = 0 THEN series
    ELSE LET last == series[Len(series)].date
             in(s) == last - (param.v - 1) <= s.date /\ s.date <= last
         IN  SelectSeq(series, in)

\* --------------------------------------------------- distribution helpers

\* Longest array of daily changes handed to histogram.
MaxHistLen == 4

\* Largest bucket count tried besides the default.
MaxBins == 4

\* Largest magnitude of a daily change handed to histogram.
MaxChange == 2

\* Smallest bucket count handed to histogram: one below 0.
MinBins == 0 - 1

\* histogram(arr, bins = 20)
DefaultBins == 20

\* Longest array of daily changes handed to countOutliers: a value can lie
\* more than 3 standard deviations from the mean only from 11 values on.
MaxOutlierLen == 11

\* The deltas of the outlier scenario (spec 8).
ScenarioDeltas == <<1, 1, 1, 1, 100>>

\* Short arrays of daily changes with several distinct values.
MaxMixedLen == 5
MixedChanges == {0 - 2, 0, 1, 3}

RECURSIVE SeqSum(_)
SeqSum(s) == IF s = <<>> THEN 0 ELSE Head(s) + SeqSum(Tail(s))

\* Math.min(...arr) and Math.max(...arr) of a non-empty array.
SeqMin(s) == CHOOSE x \in {s[i] : i \in 1..Len(s)} :
                 \A i \in 1..Len(s) : x <= s[i]

SeqMax(s) == CHOOSE x \in {s[i] : i \in 1..Len(s)} :
                 \A i \in 1..Len(s) : x >= s[i]

\* Number.prototype.toFixed(2) of a fraction, in hundredths: the nearest
\* hundredth, the larger one on a tie.
ToFixed2(x) == (200 * x.n + x.d) \div (2 * x.d)

\* movingAverage(values, window): the mean of the last `window` values from
\* index window-1 on, null (<<>>) before; index i is 1-based here.
movingAverage(values, window) ==
    [i \in 1..Len(values) |->
        IF i - 1 >= window - 1
        THEN <<Frac(SeqSum(SubSeq(values, i - window + 1, i)), window)>>
        ELSE <<>>]

\* An array argument that is present; a missing one is Undefined.
Arr(s) == [kind |-> "array", v |-> s]

\* Faulty variant of HistIdx: the top bucket's clamp is missing, so the maximum
\* lands past the last bucket.
HistIdxNoClamp(v, min, max, bins) ==
    LET idx == ((v - min) * bins) \div (max - min)
    IN  IF idx < 0 THEN 0 ELSE idx

\* The bucket of v: Math.floor((v - min) / width) with
\* width = (max - min) / bins, brought back into 0..bins-1.
HistIdx(v, min, max, bins) ==
    LET idx  == ((v - min) * bins) \div (max - min)
        top  == IF idx >= bins THEN bins - 1 ELSE idx
    IN  IF top < 0 THEN 0 ELSE top

\* The value NaN of a number.
NaN == [kind |-> "NaN"]

\* A cell of the counts array: a count, or NaN.
Count(n) == [kind |-> "number", v |-> n]

\* counts[idx]++ on a cell: NaN stays NaN.
CountIncr(c) == IF c.kind = "number" THEN Count(c.v + 1) ELSE NaN

\* The counting loop of histogram from element i on. counts[idx]++ on an
\* index the array does not have yet makes that cell NaN (undefined + 1) and
\* grows the array up to it.
RECURSIVE HistCounts(_, _, _, _, _, _)
HistCounts(a, i, min, max, bins, counts) ==
    IF i > Len(a) THEN counts
    ELSE LET idx == HistIdx(a[i], min, max, bins)
         IN  HistCounts(a, i + 1, min, max, bins,
                 IF idx \in DOMAIN counts
                 THEN [counts EXCEPT ![idx] = CountIncr(@)]
                 ELSE [j \in 0..idx |->
                          IF j \in DOMAIN counts THEN counts[j] ELSE NaN])

\* (min + i * width).toFixed(2) with width = (max - min) / bins, in
\* hundredths: for bins = 0 the width is Infinity and 0 * Infinity is NaN.
HistBin(min, max, bins, i) ==
    IF bins > 0 THEN ToFixed2(Frac(min * bins + i * (max - min), bins))
    ELSE IF bins < 0 THEN ToFixed2(Frac(-(min * bins + i * (max - min)), -bins))
    ELSE NaN

\* histogram(arr, bins): [] for a missing or empty array, one bucket when
\* all values are equal, else `bins` equal-width buckets over [min, max];
\* a bucket is {bin: its lower edge to 2 decimals, count}. Array.from makes
\* an empty counts array for bins <= 0, which the loop then grows.
histogram(arr, bins) ==
    IF arr = Undefined THEN <<>>
    ELSE IF Len(arr.v) = 0 THEN <<>>
    ELSE LET a   == arr.v
             min == SeqMin(a)
             max == SeqMax(a)
         IN  IF min = max
             THEN <<[bin |-> ToFixed2(Frac(min, 1)), count |-> Len(a)]>>
             ELSE LET counts == HistCounts(a, 1, min, max, bins,
                                           [i \in 0..(bins - 1) |-> Count(0)])
                  IN  [i \in 1..Cardinality(DOMAIN counts) |->
                          [bin   |-> HistBin(min, max, bins, i - 1),
                           count |-> IF counts[i - 1].kind = "number"
                                     THEN counts[i - 1].v ELSE NaN]]

\* n * (arr[k] - mean): the deviation of the k-th value from the mean
\* arr.reduce((a, b) => a + b, 0) / arr.length, scaled by n to stay integral.
ScaledDev(a, k) == Len(a) * a[k] - SeqSum(a)

RECURSIVE SumSqDev(_, _)
SumSqDev(a, k) ==
    IF k > Len(a) THEN 0
    ELSE ScaledDev(a, k) * ScaledDev(a, k) + SumSqDev(a, k + 1)

\* stddev(arr): the population standard deviation, 0 for fewer than 2
\* values. The model keeps its square, the variance
\*   sum((b - m)^2) / n  =  sum((n*b - S)^2) / n^3.
stddevSq(arr) ==
    IF arr = Undefined THEN Frac(0, 1)
    ELSE IF Len(arr.v) < 2 THEN Frac(0, 1)
    ELSE LET n == Len(arr.v)
         IN  Frac(SumSqDev(arr.v, 1), n * n * n)

\* Faulty variant of IsOutlier: a 1-sigma test.
IsOutlierOneSigma(a, k, s2) ==
    ScaledDev(a, k) * ScaledDev(a, k) * s2.d > s2.n * Len(a) * Len(a)

\* Faulty variant of IsOutlier: the 2-sigma test of the extremes heuristic.
IsOutlierTwoSigma(a, k, s2) ==
    ScaledDev(a, k) * ScaledDev(a, k) * s2.d > 4 * s2.n * Len(a) * Len(a)

\* Math.abs(v - m) > 3 * s for the k-th value, on the squares:
\*   (n*v - S)^2 / n^2  >  9 * s^2.
IsOutlier(a, k, s2) ==
    ScaledDev(a, k) * ScaledDev(a, k) * s2.d > 9 * s2.n * Len(a) * Len(a)

\* countOutliers(arr)
countOutliers(arr) ==
    IF arr = Undefined THEN 0
    ELSE IF Len(arr.v) < 3 THEN 0
    ELSE LET s2 == stddevSq(arr)
         IN  IF s2.n = 0 THEN 0
             ELSE Cardinality({k \in 1..Len(arr.v) : IsOutlier(arr.v, k, s2)})


\* ------------------------------------------------------ diagnostics helpers

\* Daily changes are in thousandths of a kg per day here.
\* Most daily deltas of the lists enumerated in full.
MaxDiagLen == 5

DiagChanges == {-50, 0, 49}

\* Eighteen daily changes with three extremes, two of them in a row.
RtmScenario == <<0, 0, 100, 110, 0, 0, 0, -100, 0, 0, 0, 0, 0, 0, 0, 0, 0, 0>>

\* The daily deltas of consecutive days ending on day 60.
DailyDeltas(cs) ==
    [i \in 1..Len(cs) |-> [date |-> 60 - Len(cs) + i, change |-> cs[i]]]

\* The plateau flag of a window's deltas (spec 4.2): each of the last 5 has
\* abs(change) < 0.05 kg/day; false with fewer than 5 deltas.
PlateauFlag(ds) ==
    /\ Len(ds) >= 5
    /\ \A i \in (Len(ds) - 4)..Len(ds) : Abs(ds[i].change) < 50

\* The k-th change of cs is extreme (spec 4.2): |z-score| > 2 against the
\* window's mean and (population) std, on the squares.
IsExtreme(cs, k) ==
    ScaledDev(cs, k) * ScaledDev(cs, k) * Len(cs) > 4 * SumSqDev(cs, 1)

\* The delta after the extreme k moves back toward the mean (spec 4.2): its
\* deviation has the opposite sign or a smaller magnitude.
Reverts(cs, k) ==
    /\ k < Len(cs)
    /\ \/ ScaledDev(cs, k) * ScaledDev(cs, k + 1) < 0
       \/ Abs(ScaledDev(cs, k + 1)) < Abs(ScaledDev(cs, k))

\* The regression-to-mean report of a window's deltas (spec 4.2): null with
\* fewer than 3 extremes ("not enough data").
Rtm(ds) ==
    LET cs  == [i \in 1..Len(ds) |-> ds[i].change]
        ext == {k \in 1..Len(cs) : IsExtreme(cs, k)}
        rev == {k \in ext : Reverts(cs, k)}
    IN  IF Cardinality(ext) < 3 THEN Null
        ELSE [kind |-> "rtm", extremes |-> Cardinality(ext),
              reversions |-> Cardinality(rev),
              rate |-> Frac(Cardinality(rev), Cardinality(ext))]

\* The summary the service returns for a window (spec 4.2, 6).
DiagSummary(ds, w) ==
    LET win == WindowedSeries(ds, WindowDaysParam(w))
    IN  [kind |-> "summary", plateau_flag |-> PlateauFlag(win), rtm |-> Rtm(win)]

\* Faulty variant of PlateauText: a false flag is shown as missing.
PlateauTextFalseAsMissing(sd) ==
    IF sd = Undefined THEN "--"
    ELSE IF sd.plateau_flag THEN "Possible" ELSE "--"

\* summaryDiag?.plateau_flag != null
\*     ? (summaryDiag.plateau_flag ? 'Possible' : 'No') : '--'
PlateauText(sd) ==
    IF sd = Undefined THEN "--"
    ELSE IF sd.plateau_flag THEN "Possible" ELSE "No"

\* Faulty variant of RtmText: the two counts are shown in each other's place.
RtmTextCountsSwapped(sd) ==
    IF sd = Undefined THEN [kind |-> "notEnoughData"]
    ELSE IF sd.rtm = Null THEN [kind |-> "notEnoughData"]
    ELSE [kind |-> "rate", pct |-> MulRound(100, sd.rtm.rate),
          reversions |-> sd.rtm.extremes, extremes |-> sd.rtm.reversions]

\* summaryDiag?.rtm ? `${Math.round((rtm.rate || 0) * 100)}% of extremes
\* revert (${rtm.reversions}/${rtm.extremes})` : 'Not enough data'
RtmText(sd) ==
    IF sd = Undefined THEN [kind |-> "notEnoughData"]
    ELSE IF sd.rtm = Null THEN [kind |-> "notEnoughData"]
    ELSE [kind |-> "rate", pct |-> MulRound(100, sd.rtm.rate),
          reversions |-> sd.rtm.reversions, extremes |-> sd.rtm.extremes]

\* -------------------------------------------------------- adherence helpers

\* Most samples of a series handed to the adherence summary.
MaxAdhLen == 4

\* Days with an entry: two old ones and the five days up to day 60.
AdhDates == {0, 30, 56, 57, 58, 59, 60}

\* The series the service holds: ascending, one sample per day.
AdhSeriesSet ==
    {h \in UNION {[1..k -> {Sample(d, 80) : d \in AdhDates}] : k \in 0..MaxAdhLen} :
        \A i \in 2..Len(h) : h[i - 1].date < h[i].date}

RECURSIVE StreakFrom(_, _)
\* The consecutive days with an entry, counted back from sample i.
StreakFrom(win, i) ==
    IF i = 1 THEN 1
    ELSE IF win[i - 1].date = win[i].date - 1 THEN 1 + StreakFrom(win, i - 1)
    ELSE 1

\* Current streak (spec 4.2): the consecutive calendar days up to the most
\* recent sample with an entry each.
CurrentStreak(win) == IF Len(win) = 0 THEN 0 ELSE StreakFrom(win, Len(win))

RECURSIVE GapFrom(_, _)
\* The largest distance in days between consecutive samples from i on.
GapFrom(win, i) ==
    IF i >= Len(win) THEN 0
    ELSE Max(win[i + 1].date - win[i].date, GapFrom(win, i + 1))

\* Longest gap (spec 4.2): max days between consecutive samples of the window.
LongestGapDays(win) == GapFrom(win, 1)

\* The summary the service returns for a window (spec 4.2, 6): its adherence part.
AdhSummary(h, w) ==
    LET win == WindowedSeries(h, WindowDaysParam(w))
    IN  [kind |-> "summary",
         adherence |-> [current_streak |-> CurrentStreak(win),
                        longest_gap_days |-> LongestGapDays(win)]]

\* Faulty variant of StreakText: a streak of one day is shown as missing.
StreakTextOneAsMissing(sm) ==
    IF sm = Undefined THEN [kind |-> "dash"]
    ELSE IF sm.adherence.current_streak <= 1 THEN [kind |-> "dash"]
    ELSE [kind |-> "days", v |-> sm.adherence.current_streak]

\* summary?.adherence?.current_streak != null
\*     ? `${summary.adherence.current_streak} days` : '--'
StreakText(sm) ==
    IF sm = Undefined THEN [kind |-> "dash"]
    ELSE [kind |-> "days", v |-> sm.adherence.current_streak]

\* summary?.adherence?.longest_gap_days != null
\*     ? `${summary.adherence.longest_gap_days} days` : '--'
LongestGapText(sm) ==
    IF sm = Undefined THEN [kind |-> "dash"]
    ELSE [kind |-> "days", v |-> sm.adherence.longest_gap_days]

\* ------------------------------------------------------ composition helpers

\* Most samples handed to the legacy composition section.
MaxCompLen == 2

\* A sample of the history: the weight in tenths of a kg, the body fat in
\* tenths of a percent and the muscle mass in hundredths of a kg; <<>> for
\* a field that is null.
CompSample(d, w, bf, mm) ==
    [date |-> d, weight |-> w, body_fat_percentage |-> bf, muscle_mass |-> mm]

CompSamples ==
    {CompSample(0, w, bf, mm) : w \in {800, 805}, bf \in {<<>>, <<200>>, <<205>>},
                                mm \in {<<>>, <<6000>>}}

\* fatMass = bf != null ? (weight * bf / 100) : null, in kg.
FatMass(pt) ==
    IF pt.body_fat_percentage = <<>> THEN <<>>
    ELSE <<Frac(pt.weight * pt.body_fat_percentage[1], 10000)>>

\* leanMass = muscle != null ? muscle : (fatMass != null ? weight - fatMass : null)
LeanMass(pt) ==
    IF pt.muscle_mass # <<>> THEN <<Frac(pt.muscle_mass[1], 100)>>
    ELSE IF FatMass(pt) = <<>> THEN <<>>
    ELSE <<Frac(1000 * pt.weight - pt.weight * pt.body_fat_percentage[1], 10000)>>

\* One point of the legacy series: fat and lean are parseFloat(x.toFixed(2)),
\* in hundredths of a kg, or null (<<>>).
LegacyPoint(pt) ==
    [dateLabel |-> pt.date,
     fat  |-> IF FatMass(pt) = <<>> THEN <<>> ELSE <<ToFixed2(FatMass(pt)[1])>>,
     lean |-> IF LeanMass(pt) = <<>> THEN <<>> ELSE <<ToFixed2(LeanMass(pt)[1])>>]

\* series = (history || []).map(...).filter(p => p.fat != null && p.lean != null)
LegacyComposition(h) ==
    SelectSeq([i \in 1..Len(h) |-> LegacyPoint(h[i])],
              LAMBDA q : q.fat # <<>> /\ q.lean # <<>>)

\* Most points of the composition lists enumerated in full.
MaxCompPoints == 2

\* The masses of a service point, in tenths of a kg; <<>> for null.
CompValues ==
    {[fat |-> <<>>, lean |-> <<675>>], [fat |-> <<0>>, lean |-> <<0>>],
     [fat |-> <<125>>, lean |-> <<675>>], [fat |-> <<130>>, lean |-> <<675>>],
     [fat |-> <<125>>, lean |-> <<680>>], [fat |-> <<130>>, lean |-> <<680>>]}

\* Eight days of points, and thirty-one days of points.
CompScenario8 ==
    [i \in 1..8 |-> [fat |-> <<140 - i>>, lean |-> <<670 + (i % 3)>>]]

CompScenario31 ==
    [i \in 1..31 |-> [fat |-> <<130 + (i % 2)>>, lean |-> <<675>>]]

\* The service's points for a list of masses: one per day, the last on day 60.
CompositionPoints(vs) ==
    [i \in 1..Len(vs) |->
        [date |-> 60 - Len(vs) + i, fat_mass_est |-> vs[i].fat,
         lean_mass_est |-> vs[i].lean]]

\* raw = (composition?.points || []).map(...)
\*           .filter(p => p.fat != null && p.lean != null).sort((a, b) => a.d - b.d)
CompRaw(comp) ==
    IF comp = Undefined THEN <<>>
    ELSE LET ps == comp.points
             mapped == [i \in 1..Len(ps) |->
                           [d |-> ps[i].date, dateLabel |-> ps[i].date,
                            fat |-> ps[i].fat_mass_est, lean |-> ps[i].lean_mass_est]]
             kept == SelectSeq(mapped, LAMBDA q : q.fat # <<>> /\ q.lean # <<>>)
         IN  SortByDate([i \in 1..Len(kept) |->
                            [d |-> kept[i].d, dateLabel |-> kept[i].dateLabel,
                             fat |-> kept[i].fat[1], lean |-> kept[i].lean[1]]])

\* filtered: raw itself for no window, else the points from
\* cutoff = addDays(new Date(), -compWindow) on.
CompFiltered(r, w, t) ==
    IF Len(r) = 0 THEN <<>>
    ELSE IF w <= 0 THEN r
    ELSE SelectSeq(r, LAMBDA q : Instant(q.d) >= t - 2 * w)

\* sFat[i] ?? p.fat: the mean when movingAverage has one, else the raw value.
MeanOrRaw(m, v) == IF m = <<>> THEN Frac(v, 1) ELSE Reduce(m[1])

\* smoothed: a copy of filtered for 'off', else fat and lean replaced by
\* their k-point moving averages (k = 7 or 30) where these are not null.
\* The masses of smoothed are fractions of tenths of a kg.
CompSmoothed(f, sm) ==
    IF Len(f) = 0 THEN <<>>
    ELSE IF sm = "off"
    THEN [i \in 1..Len(f) |->
             [d |-> f[i].d, dateLabel |-> f[i].dateLabel,
              fat |-> Frac(f[i].fat, 1), lean |-> Frac(f[i].lean, 1)]]
    ELSE LET k     == IF sm = "ma7" THEN 7 ELSE 30
             sFat  == movingAverage([i \in 1..Len(f) |-> f[i].fat], k)
             sLean == movingAverage([i \in 1..Len(f) |-> f[i].lean], k)
         IN  [i \in 1..Len(f) |->
                 [d |-> f[i].d, dateLabel |-> f[i].dateLabel,
                  fat |-> MeanOrRaw(sFat[i], f[i].fat),
                  lean |-> MeanOrRaw(sLean[i], f[i].lean)]]

\* total ? +(x / total * 100).toFixed(2) : 0, in hundredths of a percent.
PctOf(x, total) ==
    IF total.n = 0 THEN 0
    ELSE ToFixed2(Reduce(Frac(100 * x.n * total.d, x.d * total.n)))

\* series: each point with its total, or in percent mode with its shares.
CompSeriesOf(smd, pct) ==
    [i \in 1..Len(smd) |->
        LET q     == smd[i]
            total == FracSum(q.fat, q.lean)
        IN  IF pct
            THEN [d |-> q.d, dateLabel |-> q.dateLabel, fat |-> q.fat, lean |-> q.lean,
                  fatPct |-> PctOf(q.fat, total), leanPct |-> PctOf(q.lean, total)]
            ELSE [d |-> q.d, dateLabel |-> q.dateLabel, fat |-> q.fat, lean |-> q.lean,
                  total |-> total]]

RECURSIVE RecompLoopNotStrict(_, _)
\* Faulty variant of RecompLoop: equal masses count too.
RecompLoopNotStrict(sr, i) ==
    IF i > Len(sr) THEN 0
    ELSE (IF ~FracLt(sr[i - 1].fat, sr[i].fat) /\ ~FracLt(sr[i].lean, sr[i - 1].lean)
          THEN 1 ELSE 0) + RecompLoopNotStrict(sr, i + 1)

RECURSIVE RecompLoop(_, _)
\* The recomposition loop from index i (1-based, so from 2) on:
\*   if (series[i].fat < series[i-1].fat && series[i].lean > series[i-1].lean) recomp++
RecompLoop(sr, i) ==
    IF i > Len(sr) THEN 0
    ELSE (IF FracLt(sr[i].fat, sr[i - 1].fat) /\ FracLt(sr[i - 1].lean, sr[i].lean)
          THEN 1 ELSE 0) + RecompLoop(sr, i + 1)

\* summary: null without a point; of its metrics the recomposition count
\* and the last values are kept.
CompSummaryOf(sr) ==
    IF Len(sr) = 0 THEN Null
    ELSE [kind |-> "summary", recomp |-> RecompLoop(sr, 2),
          lastVals |-> [fat |-> sr[Len(sr)].fat, lean |-> sr[Len(sr)].lean,
                        total |-> FracSum(sr[Len(sr)].fat, sr[Len(sr)].lean)]]

\* ------------------------------------------------------ regression helpers

\* A result that is a number; the helpers below never raise.
Num(x) == [kind |-> "number", v |-> x]

RECURSIVE SumProd(_, _, _, _, _)
\* sum over i >= k of (n*xs[i] - Sx) * (n*ys[i] - Sy)
SumProd(xs, ys, Sx, Sy, k) ==
    IF k > Len(xs) THEN 0
    ELSE (Len(xs) * xs[k] - Sx) * (Len(xs) * ys[k] - Sy)
            + SumProd(xs, ys, Sx, Sy, k + 1)

\* Faulty variant of linReg: the sums are not centred on the means.
linRegUncentred(xs, ys) ==
    LET n  == Len(xs)
        N  == SumProd(xs, ys, 0, 0, 1)
        D  == SumProd(xs, xs, 0, 0, 1)
    IN  IF n < 2 \/ D = 0
        THEN [kind |-> "number", slope |-> Frac(0, 1), intercept |-> Frac(0, 1)]
        ELSE [kind |-> "number", slope |-> Frac(N, D),
              intercept |-> Frac(SeqSum(ys) * D - N * SeqSum(xs), n * D)]

\* Faulty variant of linReg: the intercept is the mean of the ys.
linRegMeanIntercept(xs, ys) ==
    LET n  == Len(xs)
        Sx == SeqSum(xs)
        Sy == SeqSum(ys)
        N  == SumProd(xs, ys, Sx, Sy, 1)
        D  == SumProd(xs, xs, Sx, Sx, 1)
    IN  IF n < 2 \/ D = 0
        THEN [kind |-> "number", slope |-> Frac(0, 1), intercept |-> Frac(0, 1)]
        ELSE [kind |-> "number", slope |-> Frac(N, D), intercept |-> Frac(Sy, n)]

\* linReg(xs, ys): {slope: 0, intercept: 0} for fewer than 2 points; else
\* slope = num / den (0 when den is 0) and intercept = meanY - slope * meanX,
\* where with Sx, Sy the sums and n the length
\*   num = sum((n*x - Sx) * (n*y - Sy)) / n^2,  den = sum((n*x - Sx)^2) / n^2.
linReg(xs, ys) ==
    LET n  == Len(xs)
        Sx == SeqSum(xs)
        Sy == SeqSum(ys)
        N  == SumProd(xs, ys, Sx, Sy, 1)
        D  == SumProd(xs, xs, Sx, Sx, 1)
    IN  IF n < 2
        THEN [kind |-> "number", slope |-> Frac(0, 1), intercept |-> Frac(0, 1)]
        ELSE IF D = 0
        THEN [kind |-> "number", slope |-> Frac(0, 1), intercept |-> Frac(Sy, n)]
        ELSE [kind |-> "number", slope |-> Frac(N, D),
              intercept |-> Frac(Sy * D - N * Sx, n * D)]

RECURSIVE SumSqResidual(_, _, _, _, _)
\* sum over i >= k of (den * (ys[i] - (a + b * xs[i])))^2 with den = a.d * b.d
SumSqResidual(xs, ys, a, b, k) ==
    IF k > Len(xs) THEN 0
    ELSE LET r == ys[k] * a.d * b.d - a.n * b.d - b.n * xs[k] * a.d
         IN  r * r + SumSqResidual(xs, ys, a, b, k + 1)

\* The coefficient of determination of a fit (spec 4.2): 1 - SSres / SStot,
\* 0 when the variance of y is 0 or there are fewer than 2 points.
R2(xs, ys, f) ==
    LET n     == Len(xs)
        a     == Reduce(f.intercept)
        b     == Reduce(f.slope)
        den   == a.d * b.d
        SStot == SumProd(ys, ys, SeqSum(ys), SeqSum(ys), 1)
        SSres == SumSqResidual(xs, ys, a, b, 1)
    IN  IF n < 2 THEN Frac(0, 1)
        ELSE IF SStot = 0 THEN Frac(0, 1)
        ELSE Frac(SStot * den * den - SSres * n * n, SStot * den * den)

\* The weekly-cadence scenario: (d0, 80), (d0 + 7, 79), (d0 + 14, 78).
ScenarioSamples == <<Sample(0, 80), Sample(7, 79), Sample(14, 78)>>

\* The points computeRecentSlope fits: the samples dated on or after
\* now - 56 days, sorted by date.
RecentPoints(h, t) ==
    LET cutoff == t - 2 * 56
        keep(p) == Instant(p.d) >= cutoff
    IN  SortByDate(SelectSeq([i \in 1..Len(h) |->
                                 [d |-> h[i].date, w |-> h[i].weight]], keep))

\* Faulty variant of HistoryAfterRecentSlope: the sort runs on the history
\* array itself.
HistorySortedInPlace(h) ==
    LET pts == SortByDate([i \in 1..Len(h) |-> [d |-> h[i].date, w |-> h[i].weight]])
    IN  [i \in 1..Len(pts) |-> Sample(pts[i].d, pts[i].w)]

\* The caller's history array after computeRecentSlope(history, ...): map
\* and filter build new arrays and sort orders the new one, so the array
\* handed in is as it was.
HistoryAfterRecentSlope(h) == h

\* computeRecentSlope(history, user, metric) at instant t, per week; height
\* is user.height in cm, 0 when the user has none.
computeRecentSlope(h, height, metric, t) ==
    IF Len(h) < 2 THEN Num(Frac(0, 1))
    ELSE LET pts == RecentPoints(h, t)
         IN  IF Len(pts) < 2 THEN Num(Frac(0, 1))
             ELSE LET xs  == [i \in 1..Len(pts) |-> pts[i].d - pts[1].d]
                      ys  == [i \in 1..Len(pts) |-> pts[i].w]
                      fit == linReg(xs, ys)
                  IN  IF metric = "bmi" /\ height > 0
                      \* ys = w / (hM * hM) with hM = height / 100
                      THEN Num(Frac(fit.slope.n * 7 * 10000,
                                    fit.slope.d * height * height))
                      ELSE Num(Frac(fit.slope.n * 7, fit.slope.d))

\* ------------------------------------------------------------ goal helpers

\* Most active goals on the dashboard.
MaxGoals == 2

\* A goal of dashboard.active_targets; starting_weight is <<>> when null.
Goal(tw, cd, dd, sw) ==
    [target_weight |-> tw, created_date |-> cd, date_of_target |-> dd,
     starting_weight |-> sw]

Goals == {Goal(tw, 0, dd, sw) : tw \in {75, 82}, dd \in {35, 70},
                                sw \in {<<>>, <<80>>}}

\* Math.round of x / 2 for an integer x: the nearest integer, the larger on
\* a tie.
RoundHalf(x) == (x + 1) \div 2

\* requiredSlope of the goal table row of t at instant `at`, for a current
\* weight cw:
\*   daysRemaining  = max(0, round((due - now) / 1 day))
\*   weeksRemaining = max(0.1, daysRemaining / 7)
\*   requiredSlope  = (targetWeight - currentWeight) / weeksRemaining
RowRequiredSlope(t, cw, at) ==
    LET daysRemaining == Max(0, RoundHalf(Instant(t.date_of_target) - at))
    IN  IF 10 * daysRemaining >= 7
        THEN Frac((t.target_weight - cw) * 7, daysRemaining)
        ELSE Frac((t.target_weight - cw) * 10, 1)

\* sameSign = (requiredSlope === 0) ? true
\*                                    : (requiredSlope > 0) === (recentSlope > 0)
RowSameSign(req, rec) == IF req.n = 0 THEN TRUE ELSE (req.n > 0) = (rec.n > 0)

\* ratio = Math.min(1, Math.abs(recentSlope) / (Math.abs(requiredSlope) + 1e-6))
RowRatio(req, rec) ==
    LET x == FracDiv(Reduce(FracAbs(rec)),
                         Reduce(FracAdd(Reduce(FracAbs(req)), Epsilon)))
    IN  IF FracLt(Frac(1, 1), x) THEN Frac(1, 1) ELSE x

\* base = sameSign ? 0.6 : 0.2
\* score = Math.max(0, Math.min(100, Math.round(100 * (base + 0.4 * ratio))))
RowScore(sameSign, ratio) ==
    LET x == (IF sameSign THEN 60 ELSE 20) + MulRound(40, ratio)
    IN  Max(0, IF x > 100 THEN 100 ELSE x)

\* rows of the goal table: none without targets or without a current weight.
GoalRows(ts, cw, recent, at) ==
    IF Len(ts) = 0 \/ cw = <<>> THEN <<>>
    ELSE [i \in 1..Len(ts) |->
             LET req == RowRequiredSlope(ts[i], cw[1], at)
             IN  [id |-> i,
                  requiredSlope |-> req,
                  recentSlope |-> recent,
                  sameSign |-> RowSameSign(req, recent.v),
                  ratio |-> RowRatio(req, recent.v),
                  score |-> RowScore(RowSameSign(req, recent.v),
                                     RowRatio(req, recent.v))]]

\* nearest: targets.slice().sort(by date_of_target)[0], the first of the
\* goals with the earliest due date.
\* The caller's goal array after targets.slice().sort(...)[0]: the sort
\* orders the copy made by slice.
TargetsAfterNearest(ts) == ts

Nearest(ts) ==
    LET i == CHOOSE k \in 1..Len(ts) :
                 /\ \A j \in 1..Len(ts) :
                        ts[k].date_of_target <= ts[j].date_of_target
                 /\ \A j \in 1..(k - 1) :
                        ts[j].date_of_target > ts[k].date_of_target
    IN  ts[i]

\* The slider positions tried, in tenths of a kg per week (the slider runs
\* from -1.5 to 1.5 in steps of 0.1).
WeeklySteps == {-15, -5, 0, 5}

\* The pace slider positions tried for the projection, in tenths of a kg per
\* week, its two ends included.
PaceSteps == {-15, -5, -1, 0, 1, 5, 15}

\* The target weights tried for the projection, kg.
ProjTargets == {75, 78, 80, 82}

\* maxDays of the projection
maxDays == 180

\* signOk = (targetWeight >= currentWeight && weekly >= 0)
\*          || (targetWeight < currentWeight && weekly <= 0)
SignOk(tw, cw, pace) ==
    (tw >= cw /\ pace.n >= 0) \/ (tw < cw /\ pace.n <= 0)

\* daily = weekly / 7.0
Daily(pace) == Frac(pace.n, 7 * pace.d)

\* (daily >= 0 && w >= targetWeight) || (daily < 0 && w <= targetWeight)
ProjBreak(daily, w, tw) ==
    \/ (daily.n >= 0 /\ ~FracLt(w, Frac(tw, 1)))
    \/ (daily.n < 0 /\ ~FracLt(Frac(tw, 1), w))

\* A point of the projection: the day and the weight in hundredths of a kg.
ProjPoint(day, weight) == [dateLabel |-> day, weight |-> weight]

\* Math.round of a fraction x >= 0.
FracRound(x) == (2 * x.n + x.d) \div (2 * x.d)

\* Faulty variant of FinishText: a pace pointing away from the target still
\* gets a finish date.
FinishTextAnyDirection(ts, cw, pace, t) ==
    IF Len(ts) = 0 \/ cw = <<>> THEN [kind |-> "dash"]
    ELSE LET delta == Nearest(ts).target_weight - cw[1]
         IN  IF pace.n = 0 THEN [kind |-> "noChange"]
             ELSE LET weeks == Reduce(Frac(Abs(delta) * pace.d, Abs(pace.n)))
                      days  == FracRound(Frac(weeks.n * 7, weeks.d))
                  IN  [kind |-> "finish", finish |-> (t \div 2) + days,
                       weeks |-> weeks, wks |-> FracRound(weeks)]

\* finishText of the path card at instant t for the selected pace:
\*   '--' without a goal or a current weight; a message when the pace is 0
\*   or points away from the target; else the date t + round(weeks * 7)
\*   days with weeks = |delta / weekly|, delta = targetWeight - currentWeight.
FinishText(ts, cw, pace, t) ==
    IF Len(ts) = 0 \/ cw = <<>> THEN [kind |-> "dash"]
    ELSE LET delta == Nearest(ts).target_weight - cw[1]
         IN  IF pace.n = 0 THEN [kind |-> "noChange"]
             ELSE IF (delta > 0 /\ pace.n < 0) \/ (delta < 0 /\ pace.n > 0)
             THEN [kind |-> "unreachable"]
             ELSE LET weeks == Reduce(Frac(Abs(delta) * pace.d, Abs(pace.n)))
                      days  == FracRound(Frac(weeks.n * 7, weeks.d))
                  IN  [kind |-> "finish", finish |-> (t \div 2) + days,
                       weeks |-> weeks, wks |-> FracRound(weeks)]

\* requiredWeekly of the path card: null without a goal or a current
\* weight, else
\*   (targetWeight - startW) / (totalDays / 7)
\* with startW = starting_weight ?? currentWeight and
\* totalDays = max(1, due - created in days).
RequiredWeekly(ts, cw) ==
    IF Len(ts) = 0 \/ cw = <<>> THEN Null
    ELSE LET nearest   == Nearest(ts)
             startW    == IF nearest.starting_weight # <<>>
                          THEN nearest.starting_weight[1] ELSE cw[1]
             totalDays == Max(1, nearest.date_of_target - nearest.created_date)
         IN  Num(Frac((nearest.target_weight - startW) * 7, totalDays))


\* ------------------------------------------------------------- fit helpers

\* Most rows of the goal analytics the service returns.
MaxRows == 2

\* The weekly slopes of the rows, kg per week.
RowSlopes == {Frac(-100, 100), Frac(-50, 100), Frac(0, 100), Frac(50, 100)}

\* The kilograms left to the target (target_weight - current_weight).
RowDeltas == {-3, 0, 2}

\* sameSign = (req === 0) || ((req > 0) === (rec > 0))
FitSameSign(req, rec) == req.n = 0 \/ ((req.n > 0) = (rec.n > 0))

\* ratio = req === 0 ? 1 : Math.min(2, Math.abs(rec) / (Math.abs(req) + 1e-6))
FitRatio(req, rec) ==
    IF req.n = 0 THEN Frac(1, 1)
    ELSE LET x == FracDiv(Reduce(FracAbs(rec)),
                         Reduce(FracAdd(Reduce(FracAbs(req)), Epsilon)))
         IN  IF FracLt(Frac(2, 1), x) THEN Frac(2, 1) ELSE x

\* pct = Math.round(Math.min(100, ratio * 100))
FitPct(ratio) == IF FracLt(Frac(1, 1), ratio) THEN 100 ELSE MulRound(100, ratio)

\* fitLabel = sameSign ? (ratio >= 1 ? 'On Track' : 'Behind') : 'Opposite'
fitLabel(sameSign, ratio) ==
    IF sameSign
    THEN IF ~FracLt(ratio, Frac(1, 1)) THEN "On Track" ELSE "Behind"
    ELSE "Opposite"

\* The ETA cell: '--' when the row has neither ETA, else the two ETAs with
\* '--' (<<>>) for a missing one.
EtaCell(r) ==
    IF r.eta_conservative # <<>> \/ r.eta_optimistic # <<>>
    THEN [kind |-> "range", cons |-> r.eta_conservative, opt |-> r.eta_optimistic]
    ELSE [kind |-> "dash"]

\* sign(x) of a fraction.
Sign(x) == IF x.n > 0 THEN 1 ELSE IF x.n < 0 THEN -1 ELSE 0

\* The service's fit classification (spec 4.7):
\*   same_sign = (required == 0) OR (sign(required) == sign(recent))
\*   ratio     = min(2, |recent| / (|required| + eps))
AnalyzerSameSign(req, rec) == req.n = 0 \/ Sign(req) = Sign(rec)

AnalyzerRatio(req, rec) ==
    LET x == FracDiv(Reduce(FracAbs(rec)),
                         Reduce(FracAdd(Reduce(FracAbs(req)), Epsilon)))
    IN  IF FracLt(Frac(2, 1), x) THEN Frac(2, 1) ELSE x

\* The service's label (spec 4.7).
AnalyzerLabel(req, rec) ==
    IF AnalyzerSameSign(req, rec)
    THEN IF ~FracLt(AnalyzerRatio(req, rec), Frac(1, 1)) THEN "On Track"
         ELSE "Behind"
    ELSE "Opposite"

\* round(100 * clamp(base + 0.4 * min(1, ratio), 0, 1)) for a base of 60 or
\* 20 hundredths.
ScoreOf(sameSign, ratio) ==
    LET base == IF sameSign THEN 60 ELSE 20
        r1   == IF FracLt(Frac(1, 1), ratio) THEN Frac(1, 1) ELSE ratio
        x    == base + MulRound(40, r1)
    IN  IF x < 0 THEN 0 ELSE IF x > 100 THEN 100 ELSE x

\* The service's probability_score (spec 4.7).
AnalyzerScore(req, rec) ==
    ScoreOf(AnalyzerSameSign(req, rec), AnalyzerRatio(req, rec))

\* The weeks left at a rate for `delta` kg to go (spec 4.7): none (<<>>) when
\* the rate is 0 or points away from the target.
EtaWeeks(delta, rate) ==
    IF rate.n = 0 \/ (delta > 0 /\ rate.n < 0) \/ (delta < 0 /\ rate.n > 0)
    THEN <<>>
    ELSE <<Reduce(Frac(Abs(delta) * rate.d, Abs(rate.n)))>>

\* The service's ETAs (spec 4.7), in weeks from the day of the analysis:
\* the conservative one at the slower of {required, recent}, the optimistic
\* one at the faster; both omitted when either rate gives none.
AnalyzerEtas(req, rec, delta) ==
    LET reqSlower == ~FracLt(FracAbs(rec), FracAbs(req))
        slower == IF reqSlower THEN req ELSE rec
        faster == IF reqSlower THEN rec ELSE req
        c == EtaWeeks(delta, slower)
        o == EtaWeeks(delta, faster)
    IN  IF c = <<>> \/ o = <<>> THEN [cons |-> <<>>, opt |-> <<>>]
        ELSE [cons |-> c, opt |-> o]

\* A row of goalAnalytics.rows as the service returns it (spec 3, 4.7).
GoalAnalyticsRow(i, req, rec, delta) ==
    [id |-> i, delta |-> delta,
     required_slope_kg_per_week |-> req,
     recent_slope_kg_per_week |-> rec,
     probability_score |-> AnalyzerScore(req, rec),
     eta_conservative |-> AnalyzerEtas(req, rec, delta).cons,
     eta_optimistic |-> AnalyzerEtas(req, rec, delta).opt]

\* nearestEta: the earliest of the rows' (eta_conservative || eta_optimistic),
\* <<>> when no row has one.
NearestEta(rs) ==
    LET etas == {IF rs[i].eta_conservative # <<>> THEN rs[i].eta_conservative
                 ELSE rs[i].eta_optimistic : i \in 1..Len(rs)} \ {<<>>}
    IN  IF etas = {} THEN <<>>
        ELSE CHOOSE e \in etas : \A f \in etas : ~FracLt(f[1], e[1])

\* The table row rendered for a row r of goalAnalytics.rows.
TableRow(r) ==
    LET req      == r.required_slope_kg_per_week
        rec      == r.recent_slope_kg_per_week
        sameSign == FitSameSign(req, rec)
        ratio    == FitRatio(req, rec)
    IN  [id |-> r.id, req |-> req, rec |-> rec, sameSign |-> sameSign,
         ratio |-> ratio, pct |-> FitPct(ratio),
         fitLabel |-> fitLabel(sameSign, ratio),
         score |-> r.probability_score, eta |-> EtaCell(r)]

\* ----------------------------------------------------------------- forecast

\* Longest history of the forecast chart.
MaxChartSamples == 3

\* Largest horizon tried besides the select's default.
MaxHorizon == 3

\* useState(60): the horizon select's initial value.
DefaultHorizon == 60

\* The samples of the forecast chart's histories.
ChartSamples == {Sample(0, 80), Sample(20, 79), Sample(47, 78),
                 Sample(60, 77), Sample(60, 80)}

\* dashboard.user.height in cm, 0 when the profile has none.
Heights == {0, 180}

Methods == {"ses", "holt", "ols", "poly2"}

\* insightsAPI.getForecast({metric = 'weight', horizon = 60, method = 'holt',
\* train_window_days = 60, alpha, beta} = {}): a property passed as undefined
\* takes its default; alpha and beta stay undefined and are not sent.
\* The argument o holds each property as <<v>>, or <<>> when it is undefined.
\* Faulty variant of getForecastParams: the default method is 'ses'.
getForecastParamsDefaultSes(o) ==
    [metric |-> IF o.metric = <<>> THEN "weight" ELSE o.metric[1],
     horizon |-> IF o.horizon = <<>> THEN 60 ELSE o.horizon[1],
     method |-> IF o.method = <<>> THEN "ses" ELSE o.method[1],
     train_window_days |-> IF o.train_window_days = <<>> THEN 60
                           ELSE o.train_window_days[1],
     alpha |-> IF o.alpha = <<>> THEN Undefined ELSE o.alpha[1],
     beta |-> IF o.beta = <<>> THEN Undefined ELSE o.beta[1]]

getForecastParams(o) ==
    [metric |-> IF o.metric = <<>> THEN "weight" ELSE o.metric[1],
     horizon |-> IF o.horizon = <<>> THEN 60 ELSE o.horizon[1],
     method |-> IF o.method = <<>> THEN "holt" ELSE o.method[1],
     train_window_days |-> IF o.train_window_days = <<>> THEN 60
                           ELSE o.train_window_days[1],
     alpha |-> IF o.alpha = <<>> THEN Undefined ELSE o.alpha[1],
     beta |-> IF o.beta = <<>> THEN Undefined ELSE o.beta[1]]

\* An argument none of whose properties is defined: {} and, as the legacy
\* page calls it, getForecast(metric, 60) with a string in the object's place.
NoForecastArgs ==
    [metric |-> <<>>, horizon |-> <<>>, method |-> <<>>,
     train_window_days |-> <<>>, alpha |-> <<>>, beta |-> <<>>]

\* The legacy page's call: getForecast(metric, 60).
LegacyForecastQuery(metric_) == getForecastParams(NoForecastArgs)

\* The forecast query's call:
\*   getForecast({metric, horizon: horizonDays, method,
\*                train_window_days: (trainWindow > 0 ? trainWindow : undefined)})
ForecastQuery(metric_, horizon_, method_, w) ==
    getForecastParams(
        [metric |-> <<metric_>>, horizon |-> <<horizon_>>, method |-> <<method_>>,
         train_window_days |-> IF WindowDaysParam(w) = Undefined THEN <<>>
                               ELSE <<WindowDaysParam(w).v>>,
         alpha |-> <<>>, beta |-> <<>>])

\* The series the service trains on for a forecast request (spec 4.3): the
\* series truncated to train_window_days.
TrainSeries(series, req) ==
    WindowedSeries(series, [kind |-> "days", v |-> req.train_window_days])

\* The least-squares line of a training series: weight against the days
\* since its first sample, fitted as linReg does.
OlsFit(train) ==
    linReg([i \in 1..Len(train) |-> train[i].date - train[1].date],
           [i \in 1..Len(train) |-> train[i].weight])

\* The OLS forecast at horizon step k (spec 4.3): the line extrapolated to
\* k days after the last training sample.
OlsForecast(train, k) ==
    LET a == Reduce(OlsFit(train).intercept)
        b == Reduce(OlsFit(train).slope)
        t == train[Len(train)].date - train[1].date + k
    IN  Reduce(FracAdd(a, Frac(b.n * t, b.d)))

\* The residual std of the OLS fit is 0: every training point is on the line.
OlsExact(train) ==
    LET a == Reduce(OlsFit(train).intercept)
        b == Reduce(OlsFit(train).slope)
    IN  \A i \in 1..Len(train) :
            train[i].weight * a.d * b.d
                = a.n * b.d + b.n * (train[i].date - train[1].date) * a.d

\* The smoothing constant of a request (spec 4.3): 0.3 unless supplied.
AlphaOf(req) == IF req.alpha = Undefined THEN Frac(3, 10) ELSE req.alpha

RECURSIVE SesLevel(_, _, _)
\* The SES level after t training points (spec 4.3):
\*   L[t] = alpha * y[t] + (1 - alpha) * L[t-1], starting from L[1] = y[1].
SesLevel(train, alpha, t) ==
    IF t = 1 THEN Frac(train[1].weight, 1)
    ELSE LET prev == SesLevel(train, alpha, t - 1)
         IN  Reduce(FracAdd(Frac(alpha.n * train[t].weight, alpha.d),
                            Frac((alpha.d - alpha.n) * prev.n, alpha.d * prev.d)))

\* The trend constant of a request (spec 4.3): 0.1 unless supplied.
BetaOf(req) == IF req.beta = Undefined THEN Frac(1, 10) ELSE req.beta

RECURSIVE HoltState(_, _, _, _)
\* Holt's level and trend after t training points (spec 4.3):
\*   L[t] = alpha * y[t] + (1 - alpha) * (L[t-1] + T[t-1])
\*   T[t] = beta * (L[t] - L[t-1]) + (1 - beta) * T[t-1]
\* starting from L[1] = y[1], T[1] = y[2] - y[1].
HoltState(train, alpha, beta, t) ==
    IF t = 1
    THEN [L |-> Frac(train[1].weight, 1),
          T |-> Frac(train[2].weight - train[1].weight, 1)]
    ELSE LET prev  == HoltState(train, alpha, beta, t - 1)
             level == FracSum(FracMul(alpha, Frac(train[t].weight, 1)),
                              FracMul(Frac(alpha.d - alpha.n, alpha.d),
                                      FracSum(prev.L, prev.T)))
             trend == FracSum(FracMul(beta, FracSum(level, FracNeg(prev.L))),
                              FracMul(Frac(beta.d - beta.n, beta.d), prev.T))
         IN  [L |-> level, T |-> trend]

\* Holt's forecast at horizon step k (spec 4.3): L[n] + k * T[n].
HoltForecast(train, alpha, beta, k) ==
    LET st == HoltState(train, alpha, beta, Len(train))
    IN  FracSum(st.L, FracMul(Frac(k, 1), st.T))

\* The forecast value of a request at horizon step k (spec 4.3): for the
\* weight metric the OLS line, the flat SES level and Holt's line; the
\* quadratic and BMI values are kept symbolic.
ForecastValue(req, train, k) ==
    IF req.metric = "weight" /\ req.method = "ols" THEN OlsForecast(train, k)
    ELSE IF req.metric = "weight" /\ req.method = "ses"
    THEN SesLevel(train, AlphaOf(req), Len(train))
    ELSE IF req.metric = "weight" /\ req.method = "holt"
    THEN HoltForecast(train, AlphaOf(req), BetaOf(req), k)
    ELSE [metric |-> req.metric, method |-> req.method, step |-> k]

\* A bound of the band at step k (spec 4.3): the forecast minus or plus a
\* fixed multiple of the in-sample residual std, which is the forecast
\* itself when the OLS residuals are all 0; kept symbolic otherwise.
ForecastBound(req, train, k, side) ==
    IF req.metric = "weight" /\ req.method = "ols" /\ OlsExact(train)
    THEN OlsForecast(train, k)
    ELSE [metric |-> req.metric, method |-> req.method, step |-> k,
          bound |-> side]

\* The service's forecast (spec 4.3): `horizon` points dated on the
\* consecutive days after the last training sample; an error for an invalid
\* parameter or fewer than 2 training points.
Forecaster(series, req) ==
    LET train == TrainSeries(series, req)
    IN  IF req.method \notin Methods \/ req.horizon < 0
        THEN [kind |-> "InvalidParameterError"]
        ELSE IF Len(train) < 2
        THEN [kind |-> "InsufficientDataError"]
        ELSE [kind |-> "ok",
              points |-> [k \in 1..req.horizon |->
                  [date     |-> train[Len(train)].date + k,
                   forecast |-> ForecastValue(req, train, k),
                   lower    |-> ForecastBound(req, train, k, "lower"),
                   upper    |-> ForecastBound(req, train, k, "upper")]]]

\* The historical part of chartData: one point per sample with the metric's
\* value (hundredths) and its 7 and 30 point means; no point for BMI when
\* the user has no height.
ChartHistory(h, metric_, height) ==
    IF metric_ = "bmi" /\ height = 0 THEN <<>>
    ELSE LET actual(pt) == IF metric_ = "weight" THEN 100 * pt.weight
                           ELSE ToFixed2(Frac(pt.weight * 10000, height * height))
             values == [i \in 1..Len(h) |-> actual(h[i])]
             ma7    == movingAverage(values, 7)
             ma30   == movingAverage(values, 30)
             fix(m) == IF m = <<>> THEN <<>>
                       ELSE <<(2 * m[1].n + m[1].d) \div (2 * m[1].d)>>
         IN  [i \in 1..Len(h) |->
                 [date |-> h[i].date, dateLabel |-> h[i].date,
                  actual |-> values[i], ma7 |-> fix(ma7[i]), ma30 |-> fix(ma30[i])]]

\* Faulty variant of ChartForecast: the first forecast point is lost in the merge.
ChartForecastDropFirst(fc) ==
    IF fc = Undefined THEN <<>>
    ELSE IF fc.kind # "ok" THEN <<>>
    ELSE [k \in 1..(Len(fc.points) - 1) |->
             [date |-> fc.points[k + 1].date, dateLabel |-> fc.points[k + 1].date,
              forecast |-> fc.points[k + 1].forecast,
              lower |-> fc.points[k + 1].lower, upper |-> fc.points[k + 1].upper]]

\* Faulty variant of ChartForecast: the upper bound is plotted as the forecast.
ChartForecastUpperAsForecast(fc) ==
    IF fc = Undefined THEN <<>>
    ELSE IF fc.kind # "ok" THEN <<>>
    ELSE [k \in 1..Len(fc.points) |->
             [date |-> fc.points[k].date, dateLabel |-> fc.points[k].date,
              forecast |-> fc.points[k].upper,
              lower |-> fc.points[k].lower, upper |-> fc.points[k].upper]]

\* The forecast part of chartData: (forecast?.points || []).map(...).
ChartForecast(fc) ==
    IF fc = Undefined THEN <<>>
    ELSE IF fc.kind # "ok" THEN <<>>
    ELSE [k \in 1..Len(fc.points) |->
             [date |-> fc.points[k].date, dateLabel |-> fc.points[k].date,
              forecast |-> fc.points[k].forecast,
              lower |-> fc.points[k].lower, upper |-> fc.points[k].upper]]

\* chartData: merged = [...h, ...f].
ChartData(h, fc, metric_, height) ==
    ChartHistory(h, metric_, height) \o ChartForecast(fc)


\* -------------------------------------------------------------------- state

VARIABLES
    now,          \* the wall clock (half days) when the page computed its memos
    history,      \* dashboard.weight_trend, in the order delivered
    trainWindow,  \* the "Train" select
    points,       \* seasonality memo: the sorted points
    deltas,       \* seasonality memo: the daily deltas
    accW,         \* seasonality memo: weekday accumulators
    accM,         \* seasonality memo: month accumulators
    changes30d,   \* seasonality memo: changes of the last 30 days
    overlay,      \* trainOverlay memo
    windowParam,  \* window_days sent with the summary query
    windowed      \* the series the service keeps for that window

VARIABLES
    metric,         \* the metric toggle: "weight" or "bmi"
    userHeight,     \* dashboard.user.height
    method,         \* the "Method" select
    horizonDays,    \* the "Horizon" select
    forecastReq,    \* the parameters the forecast query sends
    trainSeries,    \* the series the service trains on for that request
    forecast,       \* the forecast query's data, Undefined until it succeeds
    forecastStatus, \* the forecast query's status
    chartData       \* chartData memo

chartVars == <<metric, userHeight, method, horizonDays, forecastReq,
               trainSeries, forecast, forecastStatus, chartData>>

seriesVars == <<now, history, trainWindow, points, deltas, accW, accM,
                changes30d, overlay, windowParam, windowed, chartVars>>

VARIABLES
    arr,          \* the array handed to histogram / countOutliers
    bins,         \* the bucket count handed to histogram
    histData,     \* histogram's result
    outliers,     \* countOutliers' result
    distPc        \* "input" before the call, "done" after it

distVars == <<arr, bins, histData, outliers, distPc>>

VARIABLES
    gaHistory,      \* the history prop of the goal table
    targets,        \* dashboard.active_targets
    currentWeight,  \* dashboard.stats.current_weight, <<>> when null
    recentSlope,    \* computeRecentSlope's result at the last render
    rows,           \* the rows of the goal table
    requiredWeekly, \* the path card's required pace
    fit,            \* linReg's result
    rendered        \* the computations made so far

VARIABLES
    goalAnalytics,  \* the rows of the goal analytics query
    tableRows,      \* the rows of the goals overview table
    nearestEta      \* the overview's nearest ETA

tableVars == <<goalAnalytics, tableRows, nearestEta>>

VARIABLES
    weekly,         \* the path card's selected weekly change
    finishText      \* the path card's estimated finish

pathVars == <<weekly, finishText>>

goalVars == <<gaHistory, targets, currentWeight, recentSlope, rows,
              requiredWeekly, fit, rendered, tableVars, pathVars>>

VARIABLES
    diagWindow,     \* the diagnostics card's "Window" select
    diagDeltas,     \* the user's daily deltas, oldest first, as the service holds them
    summaryDiag,    \* the data of the diagnostics summary query
    plateauText,    \* the card's Plateau cell
    rtmText         \* the card's Regress-to-Mean cell

diagVars == <<diagWindow, diagDeltas, summaryDiag, plateauText, rtmText>>

VARIABLES
    adhWindow,      \* window_days of the summary query (the "Train" select)
    adhSeries,      \* the user's series as the service holds it
    summary,        \* the data of the summary query
    streak,         \* the adherence card's "Current streak"
    longestGap      \* the adherence card's "Longest gap"

adhVars == <<adhWindow, adhSeries, summary, streak, longestGap>>

VARIABLES
    compHistory,    \* the history prop of the legacy composition section
    legacySeries    \* its series of fat and lean mass

legacyVars == <<compHistory, legacySeries>>

VARIABLES
    compPoints,     \* the points the composition service holds for the user
    composition,    \* the data of the composition query
    compWindow,     \* the section's "Window" select
    smooth,         \* its "Smooth" select: "off", "ma7" or "ma30"
    modePct,        \* its "%" checkbox
    raw,            \* the points with both masses, by date
    filtered,       \* those of the window
    smoothed,       \* their smoothed masses
    compSeries,     \* the plotted series
    compSummary     \* the summary metrics, Null without a point

compVars == <<compPoints, composition, compWindow, smooth, modePct, raw,
              filtered, smoothed, compSeries, compSummary>>

VARIABLES
    projPc,         \* where the projection memo stands: "idle", "loop", "done"
    projD,          \* d of its loop
    projW,          \* w of its loop
    projData        \* out, and the memo's value once it has returned

projVars == <<projPc, projD, projW, projData>>

cardVars == <<diagVars, adhVars, legacyVars, compVars, projVars>>

vars == <<seriesVars, distVars, goalVars, cardVars>>

\* The page's memos for a history h and a training window w at instant t.
Render(h, w, t) ==
    /\ points' = Points(h)
    /\ deltas' = Deltas(Points(h))
    /\ accW' = AccW(Deltas(Points(h)))
    /\ accM' = AccM(Deltas(Points(h)))
    /\ changes30d' = Changes30d(Deltas(Points(h)), t)
    /\ overlay' = TrainOverlay(h, w)
    /\ windowParam' = WindowDaysParam(w)
    /\ windowed' = WindowedSeries(h, WindowDaysParam(w))
    /\ trainSeries' = TrainSeries(h, forecastReq)
    /\ chartData' = ChartData(h, forecast, metric, userHeight)

\* The page mounts before the dashboard query resolves: history = [].
SeriesMemoStart ==
    /\ history = <<>>
    /\ trainWindow = 60
    /\ points = <<>>
    /\ deltas = <<>>
    /\ accW = AccW(<<>>)
    /\ accM = AccM(<<>>)
    /\ changes30d = <<>>
    /\ overlay = Null
    /\ windowParam = WindowDaysParam(60)
    /\ windowed = <<>>
    /\ metric = "weight"
    /\ method = "holt"
    /\ horizonDays = DefaultHorizon
    /\ forecastReq = ForecastQuery("weight", DefaultHorizon, "holt", 60)
    /\ trainSeries = <<>>
    /\ forecast = Undefined
    /\ forecastStatus = "pending"
    /\ chartData = <<>>

\* A weight is logged and the dashboard query delivers the longer history;
\* the memos depending on the history are recomputed.
DashboardLoaded ==
    \E s \in Samples :
        /\ Len(history) < MaxSamples
        /\ history' = Append(history, s)
        /\ Render(Append(history, s), trainWindow, now)
        /\ UNCHANGED <<now, trainWindow, metric, userHeight, method,
                       horizonDays, forecastReq, forecast, forecastStatus>>
        /\ UNCHANGED <<distVars, goalVars, cardVars>>

\* The forecast query's key changed: the request goes out with the new
\* parameters, the query has no data until it succeeds, and chartData is
\* recomputed without forecast points.
Refetch(metric_, horizon_, method_, w) ==
    /\ forecastReq' = ForecastQuery(metric_, horizon_, method_, w)
    /\ trainSeries' = TrainSeries(history,
                                  ForecastQuery(metric_, horizon_, method_, w))
    /\ forecast' = Undefined
    /\ forecastStatus' = "pending"
    /\ chartData' = ChartData(history, Undefined, metric_, userHeight)

\* onChange of the "Train" select: setTrainWindow(parseInt(e.target.value)).
SetTrainWindow ==
    \E w \in TrainWindowOptions :
        /\ w # trainWindow
        /\ trainWindow' = w
        /\ overlay' = TrainOverlay(history, w)
        /\ windowParam' = WindowDaysParam(w)
        /\ windowed' = WindowedSeries(history, WindowDaysParam(w))
        /\ Refetch(metric, horizonDays, method, w)
        /\ UNCHANGED <<now, history, points, deltas, accW, accM, changes30d,
                       metric, userHeight, method, horizonDays>>
        /\ UNCHANGED <<distVars, goalVars, cardVars>>

\* No array has been handed to the distribution helpers.
DistIdle ==
    /\ arr = Undefined
    /\ bins = DefaultBins
    /\ histData = <<>>
    /\ outliers = 0
    /\ distPc = "idle"

SeriesStart ==
    /\ now \in Nows
    /\ userHeight = 180
    /\ SeriesMemoStart

\* The page with no history loaded yet, at midnight of day 60.
SeriesIdle ==
    /\ now = 120
    /\ userHeight = 180
    /\ SeriesMemoStart

\* The goal analytics query has no data: rows = [].
TableIdle ==
    /\ goalAnalytics = <<>>
    /\ tableRows = <<>>
    /\ nearestEta = <<>>

\* The path card is not mounted.
PathIdle ==
    /\ weekly = Frac(-5, 10)
    /\ finishText = [kind |-> "dash"]

\* Nothing has been handed to the goal components.
GoalIdle ==
    /\ gaHistory = <<>>
    /\ targets = <<>>
    /\ currentWeight = <<>>
    /\ recentSlope = Num(Frac(0, 1))
    /\ rows = <<>>
    /\ requiredWeekly = Null
    /\ fit = linReg(<<>>, <<>>)
    /\ rendered = {}
    /\ TableIdle
    /\ PathIdle

\* The diagnostics card before its summary query has data.
DiagIdle ==
    /\ diagWindow = 90
    /\ diagDeltas = <<>>
    /\ summaryDiag = Undefined
    /\ plateauText = PlateauText(Undefined)
    /\ rtmText = RtmText(Undefined)

\* The adherence card before its summary query has data.
AdhIdle ==
    /\ adhWindow = 60
    /\ adhSeries = <<>>
    /\ summary = Undefined
    /\ streak = StreakText(Undefined)
    /\ longestGap = LongestGapText(Undefined)

\* The legacy composition section with no history.
LegacyIdle ==
    /\ compHistory = <<>>
    /\ legacySeries = <<>>

\* The composition section before its query has data.
CompIdle ==
    /\ compPoints = <<>>
    /\ composition = Undefined
    /\ compWindow = 180
    /\ smooth = "off"
    /\ modePct = FALSE
    /\ raw = <<>>
    /\ filtered = <<>>
    /\ smoothed = <<>>
    /\ compSeries = <<>>
    /\ compSummary = Null

ProjIdle ==
    /\ projPc = "idle"
    /\ projD = 0
    /\ projW = Frac(0, 1)
    /\ projData = <<>>

CardIdle == DiagIdle /\ AdhIdle /\ LegacyIdle /\ CompIdle /\ ProjIdle

Init == SeriesStart /\ DistIdle /\ GoalIdle /\ CardIdle

Next == DashboardLoaded \/ SetTrainWindow

Spec == Init /\ [][Next]_vars

\* ------------------------------------------------------- histogram calls

SeqsUpTo(V, n) == UNION {[1..k -> V] : k \in 0..n}

HistInit ==
    /\ SeriesIdle
    /\ GoalIdle
    /\ arr \in {Undefined} \cup
               {Arr(s) : s \in SeqsUpTo((-MaxChange)..MaxChange, MaxHistLen)}
    /\ bins \in (MinBins..MaxBins) \cup {DefaultBins}
    /\ histData = <<>>
    /\ outliers = 0
    /\ distPc = "input"
    /\ CardIdle

\* histData = histogram(changes, bins)
CallHistogram ==
    /\ distPc = "input"
    /\ histData' = histogram(arr, bins)
    /\ distPc' = "done"
    /\ UNCHANGED <<arr, bins, outliers>>
    /\ UNCHANGED <<seriesVars, goalVars, cardVars>>

HistNext == CallHistogram

SpecHist == HistInit /\ [][HistNext]_vars

\* --------------------------------------------------------- outlier calls

OutlierInit ==
    /\ SeriesIdle
    /\ GoalIdle
    /\ arr \in {Undefined, Arr(ScenarioDeltas)} \cup
               {Arr(s) : s \in SeqsUpTo({0, 1}, MaxOutlierLen)} \cup
               {Arr(s) : s \in SeqsUpTo(MixedChanges, MaxMixedLen)}
    /\ bins = DefaultBins
    /\ histData = <<>>
    /\ outliers = 0
    /\ distPc = "input"
    /\ CardIdle

\* countOutliers(changes30d)
CallCountOutliers ==
    /\ distPc = "input"
    /\ outliers' = countOutliers(arr)
    /\ distPc' = "done"
    /\ UNCHANGED <<arr, bins, histData>>
    /\ UNCHANGED <<seriesVars, goalVars, cardVars>>

OutlierNext == CallCountOutliers

SpecOutliers == OutlierInit /\ [][OutlierNext]_vars

\* ------------------------------------------------ goal table and regression

\* The goal table renders: the recent slope is computed from the history
\* (before the table's own guard), then one row per target.
RenderGoalAnalytics ==
    LET recent == computeRecentSlope(gaHistory, 0, "weight", now)
    IN  /\ recentSlope' = recent
        /\ rows' = GoalRows(targets, currentWeight, recent, now)
        /\ rendered' = rendered \cup {"goalAnalytics"}
        /\ gaHistory' = HistoryAfterRecentSlope(gaHistory)
        /\ UNCHANGED <<now, targets, currentWeight, requiredWeekly,
                       fit, tableVars, pathVars>>
        /\ UNCHANGED <<history, trainWindow, points, deltas, accW, accM,
                       changes30d, overlay, windowParam, windowed, chartVars,
                       distVars, cardVars>>

\* The path card renders its required pace and its estimated finish; on the
\* first render the selected pace starts at requiredWeekly ?? -0.5.
RenderWhatIf ==
    LET required == RequiredWeekly(targets, currentWeight)
        pace     == IF "whatIf" \in rendered THEN weekly
                    ELSE IF required = Null THEN Frac(-5, 10) ELSE required.v
    IN  /\ requiredWeekly' = required
        /\ weekly' = pace
        /\ finishText' = FinishText(targets, currentWeight, pace, now)
        /\ rendered' = rendered \cup {"whatIf"}
        /\ targets' = TargetsAfterNearest(targets)
        /\ UNCHANGED <<gaHistory, currentWeight, recentSlope, rows,
                       fit, tableVars>>
        /\ UNCHANGED <<seriesVars, distVars, cardVars>>

\* onChange of the pace slider: setWeekly(parseFloat(e.target.value)), and
\* the card renders again.
SetWeekly ==
    \E k \in WeeklySteps :
        /\ "whatIf" \in rendered
        /\ weekly' = Frac(k, 10)
        /\ finishText' = FinishText(targets, currentWeight, Frac(k, 10), now)
        /\ UNCHANGED <<gaHistory, targets, currentWeight, recentSlope, rows,
                       requiredWeekly, fit, rendered, tableVars>>
        /\ UNCHANGED <<seriesVars, distVars, cardVars>>

\* linReg over the history as delivered: day offsets from its first sample
\* against the weights.
CallLinReg ==
    LET xs == [i \in 1..Len(gaHistory) |-> gaHistory[i].date - gaHistory[1].date]
        ys == [i \in 1..Len(gaHistory) |-> gaHistory[i].weight]
    IN  /\ fit' = linReg(xs, ys)
        /\ rendered' = rendered \cup {"linReg"}
        /\ UNCHANGED <<gaHistory, targets, currentWeight, recentSlope, rows,
                       requiredWeekly, tableVars, pathVars>>
        /\ UNCHANGED <<seriesVars, distVars, cardVars>>

\* The goal table over any history, with no active goal.
TrendInit ==
    /\ SeriesStart
    /\ DistIdle
    /\ gaHistory \in SeqsUpTo(Samples, MaxSamples) \cup {ScenarioSamples}
    /\ targets = <<>>
    /\ currentWeight = <<>>
    /\ recentSlope = Num(Frac(0, 1))
    /\ rows = <<>>
    /\ requiredWeekly = Null
    /\ fit = linReg(<<>>, <<>>)
    /\ rendered = {}
    /\ TableIdle
    /\ PathIdle
    /\ CardIdle

\* Instants of the later renders: those of the page, and midnight of day 90.
TrendNows == Nows \cup {180}

\* Time passes between two renders; nothing is recomputed.
ClockAdvances ==
    \E t \in TrendNows :
        /\ t > now
        /\ now' = t
        /\ UNCHANGED <<history, trainWindow, points, deltas, accW, accM,
                       changes30d, overlay, windowParam, windowed, chartVars>>
        /\ UNCHANGED <<distVars, goalVars, cardVars>>

TrendNext == RenderGoalAnalytics \/ CallLinReg \/ ClockAdvances

SpecTrend == TrendInit /\ [][TrendNext]_vars

\* Instants (half days) at which the goal components render: the day the
\* goals were created, midnight of day 35, noon of day 70.
GoalNows == {0, 70, 141}

\* Histories handed to the goal table.
GoalHistories == {<<>>, <<Sample(0, 80), Sample(30, 78)>>,
                  <<Sample(30, 78), Sample(0, 80)>>}

\* The goal components over any list of goals.
GoalInit ==
    /\ SeriesMemoStart
    /\ now \in GoalNows
    /\ userHeight = 180
    /\ DistIdle
    /\ gaHistory \in GoalHistories
    /\ targets \in SeqsUpTo(Goals, MaxGoals)
    /\ currentWeight \in {<<>>, <<78>>, <<80>>}
    /\ recentSlope = Num(Frac(0, 1))
    /\ rows = <<>>
    /\ requiredWeekly = Null
    /\ fit = linReg(<<>>, <<>>)
    /\ rendered = {}
    /\ TableIdle
    /\ PathIdle
    /\ CardIdle

GoalNext == RenderGoalAnalytics \/ RenderWhatIf \/ SetWeekly

SpecGoal == GoalInit /\ [][GoalNext]_vars

\* ------------------------------------------------------ goals overview table

\* The rows the service can return, numbered in order.
AnalyticsRows ==
    {[i \in 1..Len(b) |-> GoalAnalyticsRow(i, b[i][1], b[i][2], b[i][3])] :
        b \in SeqsUpTo(RowSlopes \X RowSlopes \X RowDeltas, MaxRows)}

\* The goals overview with the goal analytics delivered.
TableInit ==
    /\ SeriesIdle
    /\ DistIdle
    /\ gaHistory = <<>>
    /\ targets = <<>>
    /\ currentWeight = <<>>
    /\ recentSlope = Num(Frac(0, 1))
    /\ rows = <<>>
    /\ requiredWeekly = Null
    /\ fit = linReg(<<>>, <<>>)
    /\ rendered = {}
    /\ goalAnalytics \in AnalyticsRows
    /\ tableRows = <<>>
    /\ nearestEta = <<>>
    /\ PathIdle
    /\ CardIdle

\* GoalAnalyticsSection renders the overview: the nearest ETA and one table
\* row per row of the analytics.
RenderGoalsOverview ==
    /\ tableRows' = [i \in 1..Len(goalAnalytics) |-> TableRow(goalAnalytics[i])]
    /\ nearestEta' = NearestEta(goalAnalytics)
    /\ rendered' = rendered \cup {"goalsOverview"}
    /\ UNCHANGED <<gaHistory, targets, currentWeight, recentSlope, rows,
                   requiredWeekly, fit, goalAnalytics, pathVars>>
    /\ UNCHANGED <<seriesVars, distVars, cardVars>>

TableNext == RenderGoalsOverview

SpecTable == TableInit /\ [][TableNext]_vars

\* ------------------------------------------------------------ forecast chart

\* The series the dashboard can deliver to the forecast chart: ascending,
\* one sample per date.
ChartHistories ==
    {h \in SeqsUpTo(ChartSamples, MaxChartSamples) :
        \A i \in 2..Len(h) : h[i - 1].date < h[i].date}

\* The page with its history loaded and the forecast request in flight.
ForecastInit ==
    /\ now = 120
    /\ userHeight \in Heights
    /\ history \in ChartHistories
    /\ trainWindow = 60
    /\ points = Points(history)
    /\ deltas = Deltas(Points(history))
    /\ accW = AccW(Deltas(Points(history)))
    /\ accM = AccM(Deltas(Points(history)))
    /\ changes30d = Changes30d(Deltas(Points(history)), 120)
    /\ overlay = TrainOverlay(history, 60)
    /\ windowParam = WindowDaysParam(60)
    /\ windowed = WindowedSeries(history, WindowDaysParam(60))
    /\ metric = "weight"
    /\ method = "holt"
    /\ horizonDays = DefaultHorizon
    /\ forecastReq = ForecastQuery("weight", DefaultHorizon, "holt", 60)
    /\ trainSeries = TrainSeries(history,
                                 ForecastQuery("weight", DefaultHorizon, "holt", 60))
    /\ forecast = Undefined
    /\ forecastStatus = "pending"
    /\ chartData = ChartData(history, Undefined, "weight", userHeight)
    /\ DistIdle
    /\ GoalIdle
    /\ CardIdle

\* The controls' values that leave the memos of the history alone.
ControlsOnly ==
    /\ UNCHANGED <<now, history, trainWindow, points, deltas, accW, accM,
                   changes30d, overlay, windowParam, windowed, userHeight>>
    /\ UNCHANGED <<distVars, goalVars, cardVars>>

\* onChange of the "Horizon" select: setHorizonDays(parseInt(e.target.value)).
\* The horizons tried are the select's default and the shortest ones the
\* service accepts, 0 included.
SetHorizonDays ==
    \E hz \in (0..MaxHorizon) \cup {DefaultHorizon} :
        /\ hz # horizonDays
        /\ horizonDays' = hz
        /\ Refetch(metric, hz, method, trainWindow)
        /\ UNCHANGED <<metric, method>>
        /\ ControlsOnly

\* onChange of the "Method" select: setMethod(e.target.value).
SetMethod ==
    \E m \in Methods :
        /\ m # method
        /\ method' = m
        /\ Refetch(metric, horizonDays, m, trainWindow)
        /\ UNCHANGED <<metric, horizonDays>>
        /\ ControlsOnly

\* The metric toggle: setMetric('weight') / setMetric('bmi').
SetMetric ==
    \E mt \in {"weight", "bmi"} :
        /\ mt # metric
        /\ metric' = mt
        /\ Refetch(mt, horizonDays, method, trainWindow)
        /\ UNCHANGED <<method, horizonDays>>
        /\ ControlsOnly

\* The forecast request settles: on success the query's data is the service's
\* result and chartData is recomputed with it; on an error the query has no
\* data.
ForecastSettled ==
    LET res == Forecaster(history, forecastReq)
    IN  /\ forecastStatus = "pending"
        /\ forecastStatus' = IF res.kind = "ok" THEN "success" ELSE "error"
        /\ forecast' = IF res.kind = "ok" THEN res ELSE Undefined
        /\ chartData' = ChartData(history,
                                  IF res.kind = "ok" THEN res ELSE Undefined,
                                  metric, userHeight)
        /\ UNCHANGED <<metric, method, horizonDays, forecastReq, trainSeries>>
        /\ ControlsOnly

ForecastNext ==
    \/ SetTrainWindow
    \/ SetHorizonDays
    \/ SetMethod
    \/ SetMetric
    \/ ForecastSettled

SpecForecast == ForecastInit /\ [][ForecastNext]_vars

\* ------------------------------------------------------- diagnostics card

\* The options of the card's "Window" select: 2w, 1m, 3m, 6m, All.
DiagWindowOptions == {14, 30, 90, 180, 0}

\* The diagnostics card over any list of daily deltas, its query in flight.
DiagInit ==
    /\ SeriesIdle
    /\ DistIdle
    /\ GoalIdle
    /\ ProjIdle
    /\ AdhIdle
    /\ LegacyIdle
    /\ CompIdle
    /\ diagWindow = 90
    /\ diagDeltas \in {DailyDeltas(cs) :
                         cs \in SeqsUpTo(DiagChanges, MaxDiagLen) \cup {RtmScenario}}
    /\ summaryDiag = Undefined
    /\ plateauText = PlateauText(Undefined)
    /\ rtmText = RtmText(Undefined)

\* The summary query of the selected window settles and the card renders.
SummaryDiagLoaded ==
    /\ summaryDiag = Undefined
    /\ summaryDiag' = DiagSummary(diagDeltas, diagWindow)
    /\ plateauText' = PlateauText(DiagSummary(diagDeltas, diagWindow))
    /\ rtmText' = RtmText(DiagSummary(diagDeltas, diagWindow))
    /\ UNCHANGED <<diagWindow, diagDeltas>>
    /\ UNCHANGED <<seriesVars, distVars, goalVars, adhVars, legacyVars, compVars,
                   projVars>>

\* onChange of the select: setDiagWindow(parseInt(e.target.value)); the query
\* key changes, so the query has no data until it settles.
SetDiagWindow ==
    \E w \in DiagWindowOptions :
        /\ w # diagWindow
        /\ diagWindow' = w
        /\ summaryDiag' = Undefined
        /\ plateauText' = PlateauText(Undefined)
        /\ rtmText' = RtmText(Undefined)
        /\ UNCHANGED diagDeltas
        /\ UNCHANGED <<seriesVars, distVars, goalVars, adhVars, legacyVars, compVars,
                   projVars>>

DiagNext == SummaryDiagLoaded \/ SetDiagWindow

SpecDiag == DiagInit /\ [][DiagNext]_vars

\* --------------------------------------------------------- adherence card

\* The adherence card over any series, its summary query in flight.
AdhInit ==
    /\ SeriesIdle
    /\ DistIdle
    /\ GoalIdle
    /\ ProjIdle
    /\ DiagIdle
    /\ LegacyIdle
    /\ CompIdle
    /\ adhWindow = 60
    /\ adhSeries \in AdhSeriesSet
    /\ summary = Undefined
    /\ streak = StreakText(Undefined)
    /\ longestGap = LongestGapText(Undefined)

\* The summary query of the selected window settles and the card renders.
SummaryLoaded ==
    /\ summary = Undefined
    /\ summary' = AdhSummary(adhSeries, adhWindow)
    /\ streak' = StreakText(AdhSummary(adhSeries, adhWindow))
    /\ longestGap' = LongestGapText(AdhSummary(adhSeries, adhWindow))
    /\ UNCHANGED <<adhWindow, adhSeries>>
    /\ UNCHANGED <<seriesVars, distVars, goalVars, diagVars, legacyVars, compVars,
                   projVars>>

\* The "Train" select changes the summary query's key: no data until the
\* query settles.
SetSummaryWindow ==
    \E w \in TrainWindowOptions :
        /\ w # adhWindow
        /\ adhWindow' = w
        /\ summary' = Undefined
        /\ streak' = StreakText(Undefined)
        /\ longestGap' = LongestGapText(Undefined)
        /\ UNCHANGED adhSeries
        /\ UNCHANGED <<seriesVars, distVars, goalVars, diagVars, legacyVars, compVars,
                   projVars>>

AdhNext == SummaryLoaded \/ SetSummaryWindow

SpecAdherence == AdhInit /\ [][AdhNext]_vars

\* ------------------------------------------- legacy composition section

\* The section over any history of at most MaxCompLen samples, sample i
\* dated day i - 1.
LegacyCompInit ==
    /\ SeriesIdle
    /\ DistIdle
    /\ GoalIdle
    /\ ProjIdle
    /\ DiagIdle
    /\ AdhIdle
    /\ CompIdle
    /\ compHistory \in {[i \in 1..Len(h) |-> [h[i] EXCEPT !.date = i - 1]] :
                           h \in SeqsUpTo(CompSamples, MaxCompLen)}
    /\ legacySeries = <<>>

\* The section renders over its history.
RenderLegacyComposition ==
    /\ legacySeries' = LegacyComposition(compHistory)
    /\ UNCHANGED compHistory
    /\ UNCHANGED <<seriesVars, distVars, goalVars, diagVars, adhVars, compVars,
                   projVars>>

LegacyCompNext == RenderLegacyComposition

SpecLegacyComp == LegacyCompInit /\ [][LegacyCompNext]_vars

\* ---------------------------------------------------- composition section

\* The options of the section's "Window" select: 1m, 3m, 6m, All.
CompWindowOptions == {30, 90, 180, 0}

\* The memos of a render, from the query's data and the controls.
CompMemos(comp, w, sm, pct) ==
    /\ raw' = CompRaw(comp)
    /\ filtered' = CompFiltered(CompRaw(comp), w, now)
    /\ smoothed' = CompSmoothed(CompFiltered(CompRaw(comp), w, now), sm)
    /\ compSeries' =
           CompSeriesOf(CompSmoothed(CompFiltered(CompRaw(comp), w, now), sm), pct)
    /\ compSummary' =
           CompSummaryOf(
               CompSeriesOf(CompSmoothed(CompFiltered(CompRaw(comp), w, now), sm), pct))

\* The section over any list of points, its query in flight.
CompInit ==
    /\ SeriesStart
    /\ DistIdle
    /\ GoalIdle
    /\ ProjIdle
    /\ DiagIdle
    /\ AdhIdle
    /\ LegacyIdle
    /\ compPoints \in {CompositionPoints(vs) :
                          vs \in SeqsUpTo(CompValues, MaxCompPoints)
                                 \cup {CompScenario8, CompScenario31}}
    /\ composition = Undefined
    /\ compWindow = 180
    /\ smooth = "off"
    /\ modePct = FALSE
    /\ raw = <<>>
    /\ filtered = <<>>
    /\ smoothed = <<>>
    /\ compSeries = <<>>
    /\ compSummary = Null

\* The composition query settles.
CompositionLoaded ==
    /\ composition = Undefined
    /\ composition' = [kind |-> "composition", points |-> compPoints]
    /\ CompMemos([kind |-> "composition", points |-> compPoints],
                 compWindow, smooth, modePct)
    /\ UNCHANGED <<compPoints, compWindow, smooth, modePct>>
    /\ UNCHANGED <<seriesVars, distVars, goalVars, diagVars, adhVars, legacyVars,
                   projVars>>

\* onChange of the "Window" select: setCompWindow(parseInt(e.target.value)).
SetCompWindow ==
    \E w \in CompWindowOptions :
        /\ w # compWindow
        /\ compWindow' = w
        /\ CompMemos(composition, w, smooth, modePct)
        /\ UNCHANGED <<compPoints, composition, smooth, modePct>>
        /\ UNCHANGED <<seriesVars, distVars, goalVars, diagVars, adhVars, legacyVars,
                   projVars>>

\* onChange of the "Smooth" select: setSmooth(e.target.value).
SetSmooth ==
    \E sm \in {"off", "ma7", "ma30"} :
        /\ sm # smooth
        /\ smooth' = sm
        /\ CompMemos(composition, compWindow, sm, modePct)
        /\ UNCHANGED <<compPoints, composition, compWindow, modePct>>
        /\ UNCHANGED <<seriesVars, distVars, goalVars, diagVars, adhVars, legacyVars,
                   projVars>>

\* onChange of the "%" checkbox: setModePct(e.target.checked).
SetModePct ==
    /\ modePct' = ~modePct
    /\ CompMemos(composition, compWindow, smooth, ~modePct)
    /\ UNCHANGED <<compPoints, composition, compWindow, smooth>>
    /\ UNCHANGED <<seriesVars, distVars, goalVars, diagVars, adhVars, legacyVars,
                   projVars>>

CompNext == CompositionLoaded \/ SetCompWindow \/ SetSmooth \/ SetModePct

SpecComp == CompInit /\ [][CompNext]_vars

\* ------------------------------------------------- what-if projection

\* The path card with a goal list, a current weight and a selected pace; the
\* projection memo has not run.
ProjInit ==
    /\ SeriesIdle
    /\ DistIdle
    /\ gaHistory = <<>>
    /\ targets \in {<<>>} \cup {<<Goal(tw, 0, 70, <<>>)>> : tw \in ProjTargets}
    /\ currentWeight \in {<<>>, <<78>>, <<80>>}
    /\ recentSlope = Num(Frac(0, 1))
    /\ rows = <<>>
    /\ requiredWeekly = Null
    /\ fit = linReg(<<>>, <<>>)
    /\ rendered = {}
    /\ TableIdle
    /\ weekly \in {Frac(k, 10) : k \in PaceSteps}
    /\ finishText = [kind |-> "dash"]
    /\ DiagIdle
    /\ AdhIdle
    /\ LegacyIdle
    /\ CompIdle
    /\ ProjIdle

\* The memo starts: [] without a goal or a current weight, else today's
\* point with the current weight, and the loop is entered with d = 1.
ProjStart ==
    /\ projPc = "idle"
    /\ IF Len(targets) = 0 \/ currentWeight = <<>>
       THEN /\ projData' = <<>>
            /\ projPc' = "done"
            /\ UNCHANGED <<projD, projW>>
       ELSE /\ projW' = Frac(currentWeight[1], 1)
            /\ projData' = <<ProjPoint(now \div 2, 100 * currentWeight[1])>>
            /\ projD' = 1
            /\ projPc' = "loop"
    /\ UNCHANGED <<seriesVars, distVars, goalVars, diagVars, adhVars,
                   legacyVars, compVars>>

\* One pass of the loop body with d <= maxDays: the day's point is pushed,
\* then the loop breaks or d++.
ProjStep ==
    /\ projPc = "loop"
    /\ projD <= maxDays
    /\ LET tw    == Nearest(targets).target_weight
           daily == Daily(weekly)
           w     == Reduce(FracAdd(projW, daily))
       IN  /\ projW' = w
           /\ projData' = Append(projData,
                                 ProjPoint((now \div 2) + projD, ToFixed2(w)))
           /\ IF SignOk(tw, currentWeight[1], weekly) /\ ProjBreak(daily, w, tw)
              THEN /\ projPc' = "done"
                   /\ UNCHANGED projD
              ELSE /\ projD' = projD + 1
                   /\ UNCHANGED projPc
    /\ UNCHANGED <<seriesVars, distVars, goalVars, diagVars, adhVars,
                   legacyVars, compVars>>

\* d <= maxDays fails: the loop is left and out is returned.
ProjReturn ==
    /\ projPc = "loop"
    /\ projD > maxDays
    /\ projPc' = "done"
    /\ UNCHANGED <<projD, projW, projData>>
    /\ UNCHANGED <<seriesVars, distVars, goalVars, diagVars, adhVars,
                   legacyVars, compVars>>

ProjNext == ProjStart \/ ProjStep \/ ProjReturn

SpecProj == ProjInit /\ [][ProjNext]_vars

\* The memo runs to its end once called: nothing else runs in between.
FairSpecProj == SpecProj /\ WF_vars(ProjNext)

\* ------------------------------------------------------------ series claims


\* C1 (as claimed): a series of n >= 2 points yields exactly n-1 deltas, the
\* i-th being (weight[i] - weight[i-1]) / max(1, days between) dated at
\* date[i]; no consecutive pair is skipped.
C1_DeltaPerPair ==
    Len(points) >= 2 =>
        /\ Len(deltas) = Len(points) - 1
        /\ \A i \in 2..Len(points) :
               i - 1 <= Len(deltas) =>
                   /\ deltas[i - 1].date = points[i].d
                   /\ FracEq(deltas[i - 1].change,
                             Frac(points[i].w - points[i - 1].w,
                                  Max(1, points[i].d - points[i - 1].d)))

\* C2 (as claimed): the built series has strictly increasing dates, and of
\* the samples sharing a date the one inserted last is the one kept.
C2_SortedDedupLastWins ==
    /\ \A i \in 2..Len(points) : points[i - 1].d < points[i].d
    /\ \A i \in 1..Len(history) :
           (\A j \in (i + 1)..Len(history) : history[j].date # history[i].date)
               => \E k \in 1..Len(points) :
                      points[k] = [d |-> history[i].date, w |-> history[i].weight]

C6_BucketCountsSum ==
    LET pairs == {i \in 2..Len(points) : points[i].d > points[i - 1].d}
        total(acc, S) == LET RECURSIVE sum(_)
                             sum(T) == IF T = {} THEN 0
                                       ELSE LET x == CHOOSE y \in T : TRUE
                                            IN  acc[x].n + sum(T \ {x})
                         IN  sum(S)
    IN  /\ total(accW, 0..6) = Len(deltas)
        /\ total(accM, 0..11) = Len(deltas)
        /\ Len(deltas) = Cardinality(pairs)
        /\ \A wd \in 0..6 :
               accW[wd].n = Cardinality({i \in pairs : getDay(points[i].d) = wd})
        /\ \A m \in 0..11 :
               accM[m].n = Cardinality({i \in pairs : getMonth(points[i].d) = m})

\* C6 witness: two deltas that fall in different weekday and month buckets.
C6_Witness ==
    /\ Len(deltas) = 2
    /\ getDay(deltas[1].date) # getDay(deltas[2].date)
    /\ getMonth(deltas[1].date) # getMonth(deltas[2].date)
    /\ accW[getDay(deltas[2].date)].n = 1

\* ------------------------------------------------------------ forecast claims

\* The forecast points of chartData.
ChartForecastPoints == SelectSeq(chartData, LAMBDA e : "forecast" \in DOMAIN e)

\* The dates the chart would show for the current request with method m.
ForecastDatesOf(m) ==
    LET req == ForecastQuery(metric, horizonDays, m, trainWindow)
        f   == ChartForecast(Forecaster(history, req))
    IN  [k \in 1..Len(f) |-> f[k].date]

\* C5: once the forecast request has settled on a series with at least 2
\* training points, the chart holds exactly `horizon` forecast points, the
\* k-th dated k days after the last training sample, and the dates are the
\* same for each of the four methods.
C5_ForecastDates ==
    (forecastStatus # "pending" /\ Len(trainSeries) >= 2) =>
        LET f    == ChartForecastPoints
            last == trainSeries[Len(trainSeries)].date
        IN  /\ forecastStatus = "success"
            /\ Len(f) = horizonDays
            /\ Len(forecast.points) = horizonDays
            /\ \A k \in 1..Len(f) : f[k].date = last + k
            /\ \A k \in 1..Len(f) : f[k].date = forecast.points[k].date
            /\ \A m \in Methods :
                   ForecastDatesOf(m) = [k \in 1..Len(f) |-> f[k].date]

\* C5 witness: an "ols" forecast of 3 days over a window that leaves the
\* oldest of 3 samples out, the last point 3 days after the last sample.
C5_Witness ==
    /\ forecastStatus = "success"
    /\ method = "ols"
    /\ horizonDays = 3
    /\ Len(history) = 3
    /\ Len(trainSeries) = 2
    /\ chartData[Len(chartData)].date = history[3].date + 3


\* ------------------------------------------------------ distribution claims

\* The values v of a with lo <= (v - min) / (max - min) < hi, the bounds
\* being fractions of the range [min, max].
InSlice(a, lo, hi) ==
    LET min == SeqMin(a)
        max == SeqMax(a)
    IN  {k \in 1..Len(a) :
            /\ lo.n * (max - min) <= (a[k] - min) * lo.d
            /\ (a[k] - min) * hi.d < hi.n * (max - min)}

\* C7: for a non-empty array and bins >= 1 the bucket counts sum to the
\* number of values, each value being counted in the equal-width bucket of
\* [min, max] that holds it (the maximum in the last one); when all values
\* are equal there is exactly one bucket, holding them all.
C7_HistogramCounts ==
    (distPc = "done" /\ arr # Undefined /\ Len(arr.v) > 0 /\ bins >= 1) =>
        LET a == arr.v
            total == SeqSum([i \in 1..Len(histData) |-> histData[i].count])
        IN  /\ Len(histData) = IF SeqMin(a) = SeqMax(a) THEN 1 ELSE bins
            /\ total = Len(a)
            /\ SeqMin(a) = SeqMax(a) =>
                   /\ Len(histData) = 1
                   /\ histData[1].count = Len(a)
            /\ SeqMin(a) # SeqMax(a) =>
                   /\ Len(histData) = bins
                   /\ \A i \in 1..bins :
                          histData[i].count =
                              Cardinality(InSlice(a, Frac(i - 1, bins), Frac(i, bins)))
                              + (IF i = bins
                                 THEN Cardinality({k \in 1..Len(a) : a[k] = SeqMax(a)})
                                 ELSE 0)

\* C7 witness: three buckets, the maximum counted twice in the last one and
\* a value in the middle one.
C7_Witness ==
    /\ distPc = "done"
    /\ arr # Undefined
    /\ bins = 3
    /\ Len(histData) = 3
    /\ histData[3].count = 2
    /\ histData[2].count = 1
    /\ histData[1].count = 1

\* C8 (as claimed): on [1,1,1,1,100] exactly the value 100 is flagged, so
\* the outlier count is 1.
C8_ScenarioFlagsOne ==
    (distPc = "done" /\ arr = Arr(ScenarioDeltas)) => outliers = 1

\* C8 (amended): on [1,1,1,1,100] the mean is 20.8 and the variance
\* 1568.16 (std 39.6), so 3*std = 118.8 exceeds |100 - 20.8| = 79.2: no
\* value is flagged and the outlier count is 0.
C8_ScenarioFlagsNone ==
    (distPc = "done" /\ arr = Arr(ScenarioDeltas)) =>
        /\ outliers = 0
        /\ FracEq(stddevSq(arr), Frac(156816, 100))

\* C8 witness: countOutliers has run on the scenario.
C8_Witness ==
    /\ distPc = "done"
    /\ arr = Arr(ScenarioDeltas)
    /\ outliers = 0

\* C9: the outlier count is the number of values v with
\* |v - mean| > 3 * std, that is n * (n*v - S)^2 > 9 * sum((n*b - S)^2);
\* it is 0 for a missing array, for fewer than 3 values and for std = 0.
C9_OutlierCount ==
    distPc = "done" =>
        /\ arr = Undefined => outliers = 0
        /\ arr # Undefined =>
               LET a  == arr.v
                   n  == Len(a)
                   S  == SeqSum(a)
                   ss == SeqSum([k \in 1..n |-> (n * a[k] - S) * (n * a[k] - S)])
               IN  /\ outliers = Cardinality({k \in 1..n :
                                     n * (n * a[k] - S) * (n * a[k] - S) > 9 * ss})
                   /\ n < 3 => outliers = 0
                   /\ ss = 0 => outliers = 0

\* C9 witness: an array with a value beyond 3 standard deviations.
C9_Witness ==
    /\ distPc = "done"
    /\ arr # Undefined
    /\ outliers = 1

\* ------------------------------------------------------- trend and goal claims

\* C4 (as claimed): with 0 or 1 points to fit, the recent slope and the
\* regression fail with InsufficientDataError and return no number.
C4_TooFewPointsRaise ==
    /\ ("goalAnalytics" \in rendered /\ Len(RecentPoints(gaHistory, now)) < 2)
           => recentSlope.kind = "InsufficientDataError"
    /\ ("linReg" \in rendered /\ Len(gaHistory) < 2)
           => fit.kind = "InsufficientDataError"

\* C10 (as claimed): every goal's required weekly slope is
\* (target - starting) / ((due - created) / 7), whatever the current weight
\* and the current date are; for target 75, starting 80 and 70 days it is
\* -1/2.
C10_RequiredFromStart ==
    /\ "goalAnalytics" \in rendered =>
           \A i \in 1..Len(rows) :
               LET t == targets[i]
               IN  t.starting_weight # <<>> =>
                       FracEq(rows[i].requiredSlope,
                              Frac((t.target_weight - t.starting_weight[1]) * 7,
                                   t.date_of_target - t.created_date))
    /\ ("whatIf" \in rendered /\ requiredWeekly # Null) =>
           LET t == Nearest(targets)
           IN  t.starting_weight # <<>> =>
                   FracEq(requiredWeekly.v,
                          Frac((t.target_weight - t.starting_weight[1]) * 7,
                               t.date_of_target - t.created_date))

\* ------------------------------------------------------------- goal claims

\* C11 (as claimed): each rendered row is labelled 'On Track' iff same_sign
\* and ratio >= 1, 'Behind' iff same_sign and ratio < 1 and 'Opposite' iff not
\* same_sign, with same_sign = (required == 0) OR (sign(required) ==
\* sign(recent)) and ratio = min(2, |recent| / (|required| + eps)); so
\* recent = 0 with required # 0 is 'Opposite' and required = recent = 0 is
\* 'Behind'.
C11_FitLabel ==
    \A i \in 1..Len(tableRows) :
        LET r == tableRows[i]
        IN  /\ r.fitLabel = AnalyzerLabel(r.req, r.rec)
            /\ (r.rec.n = 0 /\ r.req.n # 0) => r.fitLabel = "Opposite"
            /\ (r.rec.n = 0 /\ r.req.n = 0) => r.fitLabel = "Behind"

\* C12 (as claimed): each row's score is
\* round(100 * clamp(base + 0.4 * min(1, ratio), 0, 1)) with base 0.6 if
\* same_sign else 0.2, same_sign and ratio being those of the fit
\* classification; it is an integer in [0, 100], in [60, 100] when same_sign
\* and in [20, 60] otherwise, and between rows of equal same_sign it does
\* not decrease with the ratio.
C12_ScoreFormula ==
    \A i \in 1..Len(rows) :
        LET r   == rows[i]
            req == r.requiredSlope
            rec == r.recentSlope.v
        IN  /\ r.score = AnalyzerScore(req, rec)
            /\ r.score \in 0..100
            /\ AnalyzerSameSign(req, rec) => r.score \in 60..100
            /\ ~AnalyzerSameSign(req, rec) => r.score \in 20..60
            /\ \A j \in 1..Len(rows) :
                   (AnalyzerSameSign(rows[j].requiredSlope, rows[j].recentSlope.v)
                        = AnalyzerSameSign(req, rec)
                    /\ ~FracLt(AnalyzerRatio(rows[j].requiredSlope,
                                             rows[j].recentSlope.v),
                               AnalyzerRatio(req, rec)))
                       => rows[j].score >= r.score

\* The part of C12 that holds: with same_sign as the table computes it, the
\* score is the claimed formula and lies in the claimed ranges.
ScoreOfOwnSameSign ==
    \A i \in 1..Len(rows) :
        LET r == rows[i]
        IN  /\ r.score = ScoreOf(r.sameSign,
                                 AnalyzerRatio(r.requiredSlope, r.recentSlope.v))
            /\ r.sameSign => r.score \in 60..100
            /\ ~r.sameSign => r.score \in 20..60

\* C13: for the goal the path card projects and the selected pace, no finish
\* date is produced when the pace is 0 or points away from the target, and
\* otherwise the weeks left are |target - current| / |pace|; the ETAs at the
\* goal's required and recent paces are both omitted (the cell shows '--')
\* when either pace is 0 or points away, and otherwise the conservative one
\* is not earlier than the optimistic one.
C13_EtaRule ==
    ("whatIf" \in rendered /\ targets # <<>> /\ currentWeight # <<>>) =>
        LET delta == Nearest(targets).target_weight - currentWeight[1]
            away(rate) == rate.n = 0 \/ (delta > 0 /\ rate.n < 0)
                                     \/ (delta < 0 /\ rate.n > 0)
            e     == AnalyzerEtas(requiredWeekly.v, recentSlope.v, delta)
            cell  == EtaCell([eta_conservative |-> e.cons,
                              eta_optimistic |-> e.opt])
        IN  /\ away(weekly) <=> finishText.kind \in {"noChange", "unreachable"}
            /\ away(weekly) <=> EtaWeeks(delta, weekly) = <<>>
            /\ ~away(weekly) =>
                   /\ finishText.kind = "finish"
                   /\ <<finishText.weeks>> = EtaWeeks(delta, weekly)
                   /\ FracEq(finishText.weeks,
                             Frac(Abs(delta) * weekly.d, Abs(weekly.n)))
                   /\ finishText.finish >= now \div 2
            /\ (away(requiredWeekly.v) \/ away(recentSlope.v)) =>
                   /\ e.cons = <<>> /\ e.opt = <<>>
                   /\ cell.kind = "dash"
            /\ ~(away(requiredWeekly.v) \/ away(recentSlope.v)) =>
                   /\ cell.kind = "range"
                   /\ ~FracLt(e.cons[1], e.opt[1])

\* C13 witness: 3 kg to lose at -1.5 kg/week finishes 14 days from today,
\* with a required and a recent pace that both lead to the target.
C13_Witness ==
    /\ {"whatIf", "goalAnalytics"} \subseteq rendered
    /\ finishText.kind = "finish"
    /\ finishText.finish = (now \div 2) + 14
    /\ weekly = Frac(-15, 10)
    /\ requiredWeekly.v.n < 0
    /\ recentSlope.v.n < 0

\* C14 (as claimed): the recent slope is 7 times the OLS slope per day over
\* exactly the samples of the 56 days that end at the latest sample's date,
\* whatever the current date.
C14_RecentSlopeWindow ==
    ("goalAnalytics" \in rendered /\ gaHistory # <<>>) =>
        LET pts  == SortByDate([i \in 1..Len(gaHistory) |->
                        [d |-> gaHistory[i].date, w |-> gaHistory[i].weight]])
            last == pts[Len(pts)].d
            win  == SelectSeq(pts, LAMBDA p : p.d >= last - 56)
            xs   == [i \in 1..Len(win) |-> win[i].d - win[1].d]
            ys   == [i \in 1..Len(win) |-> win[i].w]
            b    == linReg(xs, ys).slope
        IN  Len(win) >= 2 => FracEq(recentSlope.v, Frac(7 * b.n, b.d))

\* C15 (as claimed): a later call of an analyzer on the same series, goals,
\* profile and parameters returns what the earlier call returned, whatever
\* the time between them: the recent slope of a re-rendered goal table is
\* the one it had.
C15_SameInputsSameResult ==
    [][("goalAnalytics" \in rendered /\ "goalAnalytics" \in rendered'
            /\ gaHistory' = gaHistory /\ userHeight' = userHeight)
           => recentSlope' = recentSlope]_vars

\* ------------------------------------------------------ regression claims

\* C16: for the samples (d0, 80), (d0 + 7, 79), (d0 + 14, 78) the fit of
\* weight against day offset has slope -1/7 per day, i.e. -1 per week, and
\* r2 = 1.
C16_WeeklyScenario ==
    (gaHistory = ScenarioSamples /\ "linReg" \in rendered) =>
        /\ FracEq(fit.slope, Frac(-1, 7))
        /\ FracEq(Frac(7 * fit.slope.n, fit.slope.d), Frac(-1, 1))
        /\ FracEq(fit.intercept, Frac(80, 1))
        /\ FracEq(R2(<<0, 7, 14>>, <<80, 79, 78>>, fit), Frac(1, 1))

\* C16 witness: linReg has been called on the scenario's samples.
C16_Witness ==
    /\ gaHistory = ScenarioSamples
    /\ "linReg" \in rendered
    /\ fit.slope.n # 0

\* C17: when the OLS forecast of the weight has settled on a training series
\* of at least 2 points that lie on one line y = a + b * t (whatever the
\* spacing of the days), the fitted slope is b, every forecast point is on
\* that line and lower = forecast = upper at every point of the chart.
C17_OlsExactLine ==
    (forecastStatus = "success" /\ method = "ols" /\ metric = "weight") =>
        LET tr   == trainSeries
            n    == Len(tr)
            t(i) == tr[i].date - tr[1].date
            b    == Frac(tr[n].weight - tr[1].weight, t(n))
            onLine == \A i \in 1..n :
                          (tr[i].weight - tr[1].weight) * b.d = b.n * t(i)
            f    == ChartForecastPoints
        IN  onLine =>
                /\ FracEq(OlsFit(tr).slope, b)
                /\ Len(f) = horizonDays
                /\ \A k \in 1..Len(f) :
                       /\ FracEq(f[k].forecast,
                                 Frac(tr[1].weight * b.d + b.n * (t(n) + k), b.d))
                       /\ f[k].lower = f[k].forecast
                       /\ f[k].upper = f[k].forecast

\* C17 witness: an OLS forecast of 3 days over three samples 20 and 40 days
\* apart that lie on the line of slope -1/20.
C17_Witness ==
    /\ forecastStatus = "success"
    /\ method = "ols"
    /\ metric = "weight"
    /\ horizonDays = 3
    /\ trainSeries = <<Sample(0, 80), Sample(20, 79), Sample(60, 77)>>
    /\ FracEq(chartData[Len(chartData)].forecast, Frac(7685, 100))

\* C18 (as claimed): a histogram call with bins <= 0 yields
\* InvalidParameterError and never returns buckets.
C18_InvalidBins ==
    (distPc = "done" /\ bins <= 0) =>
        histData = [kind |-> "InvalidParameterError"]

\* What histogram does return for bins <= 0 on values that are not all
\* equal: one bucket whose count is NaN (and whose label is NaN for bins = 0).
HistogramOnInvalidBins ==
    (distPc = "done" /\ bins <= 0 /\ arr # Undefined) =>
        LET a == arr.v
        IN  (Len(a) > 0 /\ SeqMin(a) # SeqMax(a)) =>
                /\ Len(histData) = 1
                /\ histData[1].count = NaN
                /\ bins = 0 => histData[1].bin = NaN
                /\ bins < 0 => histData[1].bin = 100 * SeqMin(a)

RECURSIVE Pow(_, _)
Pow(b, e) == IF e = 0 THEN 1 ELSE b * Pow(b, e - 1)

\* The level a run of the recursion L[t] = alpha * y[t] + (1 - alpha) * L[t-1]
\* from L[1] = y[1] ends on, unrolled for alpha = p / q:
\*   q^(n-1) * L[n] = (q-p)^(n-1) * y[1]
\*                    + sum over t in 2..n of p * (q-p)^(n-t) * q^(t-2) * y[t].
SesUnrolled(train, alpha) ==
    LET n == Len(train)
        p == alpha.n
        q == alpha.d
    IN  Reduce(Frac(Pow(q - p, n - 1) * train[1].weight
                    + SeqSum([t \in 1..(n - 1) |->
                          p * Pow(q - p, n - t - 1) * Pow(q, t - 1)
                            * train[t + 1].weight]),
                    Pow(q, n - 1)))

\* C20: when the SES forecast of the weight has settled, the request carries
\* no alpha, the level follows L[t] = 0.3 * y[t] + 0.7 * L[t-1] over the
\* training points, and each of the `horizon` forecast values of the chart
\* is the last level L[n].
C20_SesFlat ==
    (forecastStatus = "success" /\ method = "ses" /\ metric = "weight") =>
        LET tr    == trainSeries
            n     == Len(tr)
            alpha == Frac(3, 10)
            L(t)  == SesLevel(tr, alpha, t)
            f     == ChartForecastPoints
        IN  /\ forecastReq.alpha = Undefined
            /\ \A t \in 2..n :
                   FracEq(L(t), FracAdd(Frac(3 * tr[t].weight, 10),
                                        Frac(7 * L(t - 1).n, 10 * L(t - 1).d)))
            /\ L(n) = SesUnrolled(tr, alpha)
            /\ Len(f) = horizonDays
            /\ \A k \in 1..Len(f) : f[k].forecast = L(n)

\* C20 witness: an SES forecast of 3 days over the samples 80, 79, 77, every
\* forecast value being the last level 78.89.
C20_Witness ==
    /\ forecastStatus = "success"
    /\ method = "ses"
    /\ metric = "weight"
    /\ horizonDays = 3
    /\ trainSeries = <<Sample(0, 80), Sample(20, 79), Sample(60, 77)>>
    /\ \A k \in 1..3 :
           chartData[Len(chartData) - 3 + k].forecast = Frac(7889, 100)

\* C21: when the Holt forecast of the weight has settled, the forecast at
\* step h is L[n] + h * T[n] for the final level and trend under alpha 0.3
\* and beta 0.1, so consecutive values differ by T[n] (over 2 training points
\* the line runs through both); and a call that supplies no method, alpha or
\* beta, as the legacy page's does, is a Holt request without alpha or beta.
C21_HoltLine ==
    /\ \A mt \in {"weight", "bmi"} :
           /\ LegacyForecastQuery(mt).method = "holt"
           /\ AlphaOf(LegacyForecastQuery(mt)) = Frac(3, 10)
           /\ BetaOf(LegacyForecastQuery(mt)) = Frac(1, 10)
    /\ (forecastStatus = "success" /\ method = "holt" /\ metric = "weight") =>
           LET tr == trainSeries
               n  == Len(tr)
               st == HoltState(tr, Frac(3, 10), Frac(1, 10), n)
               f  == ChartForecastPoints
           IN  /\ forecastReq.method = "holt"
               /\ Len(f) = horizonDays
               /\ \A h \in 1..Len(f) :
                      FracEq(f[h].forecast,
                             Frac(st.L.n * st.T.d + h * st.T.n * st.L.d,
                                  st.L.d * st.T.d))
               /\ \A h \in 2..Len(f) :
                      FracEq(FracSum(f[h].forecast, FracNeg(f[h - 1].forecast)),
                             st.T)
               /\ n = 2 =>
                      \A h \in 1..Len(f) :
                          FracEq(f[h].forecast,
                                 Frac(tr[2].weight
                                      + h * (tr[2].weight - tr[1].weight), 1))

\* C21 witness: a Holt forecast of 3 days over the samples 80, 79, 77, whose
\* final level is 77.7 and trend -1.03.
C21_Witness ==
    /\ forecastStatus = "success"
    /\ method = "holt"
    /\ metric = "weight"
    /\ horizonDays = 3
    /\ trainSeries = <<Sample(0, 80), Sample(20, 79), Sample(60, 77)>>
    /\ FracEq(chartData[Len(chartData)].forecast, Frac(7461, 100))

\* ------------------------------------------------------ diagnostics claims

\* The deltas of the selected diagnostics window.
DiagWindowDeltas == WindowedSeries(diagDeltas, WindowDaysParam(diagWindow))

\* C22: once the diagnostics summary has loaded, plateau_flag is a boolean,
\* true exactly when the window has at least 5 deltas and each of the last 5
\* has abs(change) < 0.05 (strictly); with fewer than 5 deltas it is false,
\* and the card shows 'Possible' for true and 'No' for false, never '--'.
C22_PlateauFlag ==
    summaryDiag # Undefined =>
        LET win == DiagWindowDeltas
            n   == Len(win)
        IN  /\ summaryDiag.kind = "summary"
            /\ summaryDiag.plateau_flag \in BOOLEAN
            /\ summaryDiag.plateau_flag <=>
                   (n >= 5 /\ \A i \in 1..n : i > n - 5 => Abs(win[i].change) < 50)
            /\ n < 5 => (summaryDiag.plateau_flag = FALSE /\ plateauText = "No")
            /\ plateauText = IF summaryDiag.plateau_flag THEN "Possible" ELSE "No"

\* C22 witness: five deltas just under the threshold are flagged, and shown
\* as 'Possible'.
C22_Witness ==
    /\ summaryDiag # Undefined
    /\ Len(DiagWindowDeltas) = 5
    /\ \E i \in 1..5 : DiagWindowDeltas[i].change = 49
    /\ plateauText = "Possible"

\* C23: once the diagnostics summary has loaded, regression-to-mean is
\* reported exactly when the window holds at least 3 extreme deltas
\* (|z-score| > 2); a report has reversions <= extremes and a rate
\* reversions / extremes in [0, 1]; with fewer than 3 extremes the card shows
\* 'Not enough data' and the summary is no error.
C23_RegressionToMean ==
    summaryDiag # Undefined =>
        LET win == DiagWindowDeltas
            cs  == [i \in 1..Len(win) |-> win[i].change]
            ext == Cardinality({k \in 1..Len(cs) : IsExtreme(cs, k)})
        IN  /\ summaryDiag.kind = "summary"
            /\ (rtmText.kind = "rate") <=> (ext >= 3)
            /\ ext < 3 => (summaryDiag.rtm = Null /\ rtmText = [kind |-> "notEnoughData"])
            /\ ext >= 3 =>
                   /\ rtmText.extremes = ext
                   /\ rtmText.reversions >= 0
                   /\ rtmText.reversions <= rtmText.extremes
                   /\ summaryDiag.rtm.rate = Frac(rtmText.reversions, rtmText.extremes)
                   /\ rtmText.pct = MulRound(100, summaryDiag.rtm.rate)
                   /\ rtmText.pct \in 0..100

\* C23 witness: a window with three extremes, two of which are followed by
\* a move back toward the mean.
C23_Witness ==
    /\ summaryDiag # Undefined
    /\ rtmText = [kind |-> "rate", pct |-> 67, reversions |-> 2, extremes |-> 3]

\* ------------------------------------------------------- adherence claims

\* The samples of the summary's window.
AdhWindowSeries == WindowedSeries(adhSeries, WindowDaysParam(adhWindow))

\* C24: once the summary has loaded over a non-empty window, the streak shown
\* is the length of the longest run of consecutive days that ends on the
\* latest sample's date with a sample on every day (at least 1, and 1 when
\* the day before has no entry), and the longest gap shown is the largest
\* number of days between two consecutive samples of the window.
C24_StreakAndGap ==
    (summary # Undefined /\ Len(AdhWindowSeries) > 0) =>
        LET win    == AdhWindowSeries
            days   == {win[i].date : i \in 1..Len(win)}
            last   == win[Len(win)].date
            s      == summary.adherence.current_streak
            g      == summary.adherence.longest_gap_days
            gaps   == {win[i + 1].date - win[i].date : i \in 1..(Len(win) - 1)}
        IN  /\ s >= 1
            /\ \A d \in (last - s + 1)..last : d \in days
            /\ (last - s) \notin days
            /\ (last - 1) \notin days => s = 1
            /\ \A x \in gaps : x <= g
            /\ gaps # {} => g \in gaps
            /\ streak = [kind |-> "days", v |-> s]
            /\ longestGap = [kind |-> "days", v |-> g]

\* C24 witness: entries on days 30, 58, 59 and 60 in a 60 day window: a
\* streak of 3 days and a longest gap of 28 days.
C24_Witness ==
    /\ summary # Undefined
    /\ Len(AdhWindowSeries) = 4
    /\ streak = [kind |-> "days", v |-> 3]
    /\ longestGap = [kind |-> "days", v |-> 28]

\* ----------------------------------------------------- composition claims

\* The samples of the legacy history that carry a body fat percentage.
WithBodyFat == SelectSeq(compHistory, LAMBDA pt : pt.body_fat_percentage # <<>>)

LegacyCompositionRounded ==
    (compHistory # <<>> /\ (legacySeries # <<>> \/ WithBodyFat = <<>>)) =>
        /\ Len(legacySeries) = Len(WithBodyFat)
        /\ \A i \in 1..Len(legacySeries) :
               LET pt == WithBodyFat[i]
                   q  == legacySeries[i]
                   wb == pt.weight * pt.body_fat_percentage[1]
               IN  /\ q.dateLabel = pt.date
                   /\ 2 * Abs(100 * q.fat[1] - wb) <= 100
                   /\ pt.muscle_mass # <<>> => q.lean[1] = pt.muscle_mass[1]
                   /\ pt.muscle_mass = <<>> =>
                          /\ 2 * Abs(100 * q.lean[1] - (1000 * pt.weight - wb)) <= 100
                          /\ Abs(q.fat[1] + q.lean[1] - 10 * pt.weight) <= 1

\* The window of the smoothing mode.
SmoothK == IF smooth = "ma7" THEN 7 ELSE 30

\* The mean of the k values of a mass up to point i of filtered.
TrailingMean(i, k, mass(_)) ==
    Frac(SeqSum([j \in 1..k |-> mass(filtered[i - k + j])]), k)

\* C26 (as claimed): with 7 or 30 day smoothing the smoothed fat and lean of
\* the point at index i >= k-1 are the means of the k values up to it, and
\* at every index i < k-1 the smoothed value is absent, no raw value standing
\* in for it.
C26_SmoothedOrAbsent ==
    (composition # Undefined /\ smooth # "off") =>
        /\ Len(smoothed) = Len(filtered)
        /\ \A i \in 1..Len(smoothed) :
               /\ i >= SmoothK =>
                      /\ FracEq(smoothed[i].fat,
                                TrailingMean(i, SmoothK, LAMBDA q : q.fat))
                      /\ FracEq(smoothed[i].lean,
                                TrailingMean(i, SmoothK, LAMBDA q : q.lean))
               /\ i < SmoothK =>
                      /\ smoothed[i].fat = Null
                      /\ smoothed[i].lean = Null

\* What the section shows with smoothing: the means from index k-1 on, and
\* the raw masses before.
SmoothedMeanOrRaw ==
    (composition # Undefined /\ smooth # "off") =>
        /\ Len(smoothed) = Len(filtered)
        /\ \A i \in 1..Len(smoothed) :
               /\ i >= SmoothK =>
                      /\ FracEq(smoothed[i].fat,
                                TrailingMean(i, SmoothK, LAMBDA q : q.fat))
                      /\ FracEq(smoothed[i].lean,
                                TrailingMean(i, SmoothK, LAMBDA q : q.lean))
               /\ i < SmoothK =>
                      /\ smoothed[i].fat = Frac(filtered[i].fat, 1)
                      /\ smoothed[i].lean = Frac(filtered[i].lean, 1)

\* C27: the recomposition count of the summary is the number of points of
\* the series, from the second on, whose fat is strictly below and whose lean
\* is strictly above the previous point's; it lies between 0 and n - 1, and
\* there is no summary exactly when the series is empty.
C27_RecompCount ==
    composition # Undefined =>
        LET n == Len(compSeries)
            down(i) == compSeries[i].fat.n * compSeries[i - 1].fat.d
                           < compSeries[i - 1].fat.n * compSeries[i].fat.d
            up(i)   == compSeries[i].lean.n * compSeries[i - 1].lean.d
                           > compSeries[i - 1].lean.n * compSeries[i].lean.d
        IN  /\ (compSummary = Null) <=> (n = 0)
            /\ n > 0 =>
                   /\ compSummary.recomp =
                          Cardinality({i \in 2..n : down(i) /\ up(i)})
                   /\ compSummary.recomp >= 0
                   /\ compSummary.recomp <= n - 1

\* C27 witness: eight unsmoothed points whose fat falls every day and whose
\* lean rises on five of the seven days.
C27_Witness ==
    /\ composition # Undefined
    /\ smooth = "off"
    /\ Len(compSeries) = 8
    /\ compSummary.recomp = 5

\* C28 (as claimed): in percent mode every point has fatPct = fat / (fat +
\* lean) * 100 and leanPct = lean / (fat + lean) * 100, adding up to 100 when
\* fat + lean is not 0, and both 0 when it is. The shares are in hundredths
\* of a percent.
C28_PercentMode ==
    (composition # Undefined /\ modePct) =>
        \A i \in 1..Len(compSeries) :
            LET q     == compSeries[i]
                total == FracSum(q.fat, q.lean)
            IN  /\ total.n = 0 => (q.fatPct = 0 /\ q.leanPct = 0)
                /\ total.n # 0 =>
                       /\ q.fatPct * q.fat.d * total.n = 10000 * q.fat.n * total.d
                       /\ q.leanPct * q.lean.d * total.n = 10000 * q.lean.n * total.d
                       /\ q.fatPct + q.leanPct = 10000

\* What the section shows in percent mode: the shares to 2 decimals, adding
\* up to 100 within 0.01, and both 0 when fat + lean is 0.
PercentModeRounded ==
    (composition # Undefined /\ modePct) =>
        \A i \in 1..Len(compSeries) :
            LET q     == compSeries[i]
                total == FracSum(q.fat, q.lean)
            IN  /\ total.n = 0 => (q.fatPct = 0 /\ q.leanPct = 0)
                /\ total.n # 0 =>
                       /\ q.fatPct = PctOf(q.fat, total)
                       /\ q.leanPct = PctOf(q.lean, total)
                       /\ Abs(q.fatPct + q.leanPct - 10000) <= 1

\* ---------------------------------------------------- small array claims

OutlierFromEleven ==
    (distPc = "done" /\ arr = Arr(<<0, 0, 0, 0, 0, 0, 0, 0, 0, 0, 1>>))
        => outliers = 1

\* ---------------------------------------------------- projection claims

\* The projected weight of day d, cw + d * weekly / 7, has reached or passed
\* the target tw coming from the current weight cw.
ReachedTarget(tw, cw, pace, d) ==
    IF tw >= cw
    THEN 7 * pace.d * cw + d * pace.n >= 7 * pace.d * tw
    ELSE 7 * pace.d * cw + d * pace.n <= 7 * pace.d * tw

\* C30 (as claimed): the projection has between 2 and maxDays + 1 points;
\* when the pace is compatible with the target its last point is the first
\* day d >= 1 whose projected weight has reached or passed the target, or
\* day maxDays when no day has; when the pace is incompatible it has
\* exactly maxDays + 1 points.
C30_Projection ==
    (projPc = "done" /\ Len(targets) > 0 /\ currentWeight # <<>>) =>
        LET tw   == Nearest(targets).target_weight
            cw   == currentWeight[1]
            n    == Len(projData)
            days == {d \in 1..maxDays : ReachedTarget(tw, cw, weekly, d)}
        IN  /\ n >= 2
            /\ n <= maxDays + 1
            /\ SignOk(tw, cw, weekly) =>
                   /\ days # {} =>
                          /\ (n - 1) \in days
                          /\ \A d \in days : n - 1 <= d
                   /\ days = {} => n - 1 = maxDays
            /\ ~SignOk(tw, cw, weekly) => n = maxDays + 1

\* What the loop does: it stops on the first day d >= 1 on which
\* (daily >= 0 and w >= target) or (daily < 0 and w <= target), so that a
\* pace of 0 towards a lower target stops on day 1; the points are the days
\* today .. today + n - 1 with the weights to 2 decimals.
ProjectionAsCoded ==
    /\ projPc = "loop" => (projD >= 1 /\ projD <= maxDays + 1 /\ Len(projData) = projD)
    /\ (projPc = "done" /\ (Len(targets) = 0 \/ currentWeight = <<>>)) => projData = <<>>
    /\ (projPc = "done" /\ Len(targets) > 0 /\ currentWeight # <<>>) =>
           LET tw   == Nearest(targets).target_weight
               cw   == currentWeight[1]
               n    == Len(projData)
               w(d) == Frac(7 * weekly.d * cw + d * weekly.n, 7 * weekly.d)
               days == {d \in 1..maxDays : ProjBreak(Daily(weekly), w(d), tw)}
           IN  /\ n >= 2
               /\ n <= maxDays + 1
               /\ (SignOk(tw, cw, weekly) /\ days # {}) =>
                      /\ (n - 1) \in days
                      /\ \A d \in days : n - 1 <= d
               /\ (~SignOk(tw, cw, weekly) \/ days = {}) => n = maxDays + 1
               /\ projData[1] = ProjPoint(now \div 2, 100 * cw)
               /\ \A i \in 2..n :
                      projData[i] = ProjPoint((now \div 2) + i - 1, ToFixed2(w(i - 1)))

\* The memo returns.
ProjectionTerminates == <>(projPc = "done")

====
